---- MODULE Spec2Model ----
(***************************************************************************)
(* A model of picosnitch's Correlator (src/picosnitch.py): the event       *)
(* drain process_queue, the ledger update update_snitch and the helpers    *)
(* they call.                                                              *)
(*                                                                         *)
(* Strings the code inspects character by character (names, executables,  *)
(* command lines) are sequences of code points; Python compares and sorts  *)
(* them by code point, and so does the model.                              *)
(***************************************************************************)
EXTENDS Integers, Sequences, FiniteSets, TLC

(***************************************************************************)
(* Python str and list primitives                                          *)
(***************************************************************************)

\* min of two naturals
Min(x, y) == IF x <= y THEN x ELSE y

\* s < t for Python strings (lexicographic on code points)
StrLess(s, t) ==
    \E k \in 0..Min(Len(s), Len(t)) :
        /\ \A i \in 1..k : s[i] = t[i]
        /\ \/ (k = Len(s) /\ k < Len(t))
           \/ (k < Len(s) /\ k < Len(t) /\ s[k + 1] < t[k + 1])

\* x in l, for a Python list l
InList(x, l) == \E i \in 1..Len(l) : l[i] = x

\* l.count(x)
Count(x, l) == Cardinality({i \in 1..Len(l) : l[i] = x})

\* l.index(x): the first position of x (1-based here)
Index(x, l) == CHOOSE i \in 1..Len(l) : l[i] = x /\ \A j \in 1..(i - 1) : l[j] # x

\* l.remove(x): drop the first occurrence of x
Remove(x, l) ==
    LET i == Index(x, l) IN SubSeq(l, 1, i - 1) \o SubSeq(l, i + 1, Len(l))

\* needle in hay, for Python strings (substring test)
IsSubstring(needle, hay) ==
    \E i \in 0..(Len(hay) - Len(needle)) :
        \A k \in 1..Len(needle) : hay[i + k] = needle[k]

\* str.lower() on the ASCII letters
LowerChar(c) == IF 65 <= c /\ c <= 90 THEN c + 32 ELSE c
Lower(s) == [i \in 1..Len(s) |-> LowerChar(s[i])]

\* list.sort() of a list of strings / of integers (insertion sort; the order
\* of equal elements does not show)
RECURSIVE InsertStr(_, _)
InsertStr(x, l) ==
    IF l = <<>> THEN <<x>>
    ELSE IF StrLess(Head(l), x) THEN <<Head(l)>> \o InsertStr(x, Tail(l))
    ELSE <<x>> \o l

RECURSIVE SortStrs(_)
SortStrs(l) == IF l = <<>> THEN <<>> ELSE InsertStr(Head(l), SortStrs(Tail(l)))

RECURSIVE InsertInt(_, _)
InsertInt(x, l) ==
    IF l = <<>> THEN <<x>>
    ELSE IF Head(l) < x THEN <<Head(l)>> \o InsertInt(x, Tail(l))
    ELSE <<x>> \o l

RECURSIVE SortInts(_)
SortInts(l) == IF l = <<>> THEN <<>> ELSE InsertInt(Head(l), SortInts(Tail(l)))

\* "*" * n
RECURSIVE Stars(_)
Stars(n) == IF n <= 0 THEN <<>> ELSE <<42>> \o Stars(n - 1)

(***************************************************************************)
(* shlex.split (POSIX mode) on command lines made of word characters,      *)
(* blanks (32) and single quotes (39).  The result is [ok, toks]; ok is    *)
(* FALSE where shlex raises ValueError("No closing quotation").            *)
(***************************************************************************)
RECURSIVE ShlexScan(_, _, _, _, _)
ShlexScan(s, i, st, tok, out) ==
    IF i > Len(s)
    THEN CASE st = "quote" -> [ok |-> FALSE, toks |-> <<>>]
           [] st = "word"  -> [ok |-> TRUE, toks |-> Append(out, tok)]
           [] OTHER        -> [ok |-> TRUE, toks |-> out]
    ELSE LET c == s[i] IN
         CASE st = "ws" ->
                IF c = 32 THEN ShlexScan(s, i + 1, "ws", <<>>, out)
                ELSE IF c = 39 THEN ShlexScan(s, i + 1, "quote", <<>>, out)
                ELSE ShlexScan(s, i + 1, "word", <<c>>, out)
           [] st = "word" ->
                IF c = 32 THEN ShlexScan(s, i + 1, "ws", <<>>, Append(out, tok))
                ELSE IF c = 39 THEN ShlexScan(s, i + 1, "quote", tok, out)
                ELSE ShlexScan(s, i + 1, "word", Append(tok, c), out)
           [] OTHER ->
                IF c = 39 THEN ShlexScan(s, i + 1, "word", tok, out)
                ELSE ShlexScan(s, i + 1, "quote", Append(tok, c), out)

shlex_split(s) == ShlexScan(s, 1, "ws", <<>>, <<>>)

(***************************************************************************)
(* difflib: SequenceMatcher.find_longest_match, get_matching_blocks,       *)
(* ratio and get_close_matches, without junk (the autojunk heuristic needs *)
(* sequences of 200 elements).  Positions are Python's: 0-based, half open.*)
(***************************************************************************)

\* a[i:i+k] == b[j:j+k]
BlockAt(a, b, i, j, k) == \A d \in 1..k : a[i + d] = b[j + d]

\* the blocks <<i, j, k>> with a[i:i+k] == b[j:j+k] inside a[alo:ahi], b[blo:bhi]
CommonBlocks(a, b, alo, ahi, blo, bhi) ==
    {m \in (alo..ahi) \X (blo..bhi) \X (0..Min(ahi - alo, bhi - blo)) :
        /\ m[1] + m[3] <= ahi
        /\ m[2] + m[3] <= bhi
        /\ BlockAt(a, b, m[1], m[2], m[3])}

\* the size of the longest block of Cand
MaxSize(Cand) == CHOOSE k \in {m[3] : m \in Cand} : \A m \in Cand : m[3] <= k

\* the block of L that starts earliest in a, and of those the one that
\* starts earliest in b
Earliest(L) ==
    CHOOSE m \in L : \A n \in L : m[1] < n[1] \/ (m[1] = n[1] /\ m[2] <= n[2])

LongestOf(alo, blo, Cand, best) ==
    IF best = 0 THEN <<alo, blo, 0>> ELSE Earliest({m \in Cand : m[3] = best})

LongestAmong(alo, blo, Cand) == LongestOf(alo, blo, Cand, MaxSize(Cand))

\* the longest block of a[alo:ahi] and b[blo:bhi]; of the longest, the one
\* that starts earliest in a, and of those the one that starts earliest in b
find_longest_match(a, b, alo, ahi, blo, bhi) ==
    LongestAmong(alo, blo, CommonBlocks(a, b, alo, ahi, blo, bhi))

\* the matching blocks in increasing order (the recursion of
\* get_matching_blocks), before the terminating (la, lb, 0) block
RECURSIVE Blocks(_, _, _, _, _, _)
RECURSIVE BlocksAround(_, _, _, _, _, _, _)
BlocksAround(a, b, alo, ahi, blo, bhi, m) ==
    IF m[3] = 0 THEN <<>>
    ELSE (IF alo < m[1] /\ blo < m[2] THEN Blocks(a, b, alo, m[1], blo, m[2]) ELSE <<>>)
         \o <<m>>
         \o (IF m[1] + m[3] < ahi /\ m[2] + m[3] < bhi
             THEN Blocks(a, b, m[1] + m[3], ahi, m[2] + m[3], bhi) ELSE <<>>)

Blocks(a, b, alo, ahi, blo, bhi) ==
    BlocksAround(a, b, alo, ahi, blo, bhi, find_longest_match(a, b, alo, ahi, blo, bhi))

\* adjacent blocks are collapsed into one
RECURSIVE Collapse(_)
Collapse(bs) ==
    IF Len(bs) <= 1 THEN bs
    ELSE LET x == bs[1]
             y == bs[2]
         IN  IF x[1] + x[3] = y[1] /\ x[2] + x[3] = y[2]
             THEN Collapse(<<<<x[1], x[2], x[3] + y[3]>>>> \o SubSeq(bs, 3, Len(bs)))
             ELSE <<x>> \o Collapse(Tail(bs))

get_matching_blocks(a, b) ==
    Append(Collapse(Blocks(a, b, 0, Len(a), 0, Len(b))), <<Len(a), Len(b), 0>>)

RECURSIVE SumSizes(_)
SumSizes(bs) == IF bs = <<>> THEN 0 ELSE Head(bs)[3] + SumSizes(Tail(bs))

\* the number of matched characters; ratio() is 2.0 * Matches / (la + lb)
Matches(a, b) == SumSizes(get_matching_blocks(a, b))

\* (score of x, x) < (score of y, y), the order heapq.nlargest uses; mx and
\* my are the matches of x and of y with the word
ScoreLess(word, x, mx, y, my) ==
    \/ mx * (Len(y) + Len(word)) < my * (Len(x) + Len(word))
    \/ /\ mx * (Len(y) + Len(word)) = my * (Len(x) + Len(word))
       /\ StrLess(x, y)

\* the largest of the close matches, each given with its matches
Best(word, close) ==
    CHOOSE c \in close : \A d \in close : d = c \/ ScoreLess(word, d[1], d[2], c[1], c[2])

Nearest(word, close) == IF close = {} THEN <<>> ELSE <<Best(word, close)[1]>>

\* difflib.get_close_matches(word, l, n=1, cutoff=num/den): [] or [best]
get_close_matches(word, l, num, den) ==
    Nearest(word, {c \in {<<l[i], Matches(l[i], word)>> : i \in 1..Len(l)} :
                      IF Len(c[1]) + Len(word) = 0 THEN num <= den
                      ELSE 2 * c[2] * den >= num * (Len(c[1]) + Len(word))})

(***************************************************************************)
(* get_common_pattern (lines 126-138)                                      *)
(***************************************************************************)

\* the loop of lines 130-133 over the matching blocks of a.lower(), b.lower()
RECURSIVE PatternFrom(_, _, _)
PatternFrom(a, bs, pat) ==
    IF bs = <<>> THEN pat
    ELSE LET m == Head(bs)
             p1 == pat \o Stars(m[1] - Len(pat))
         IN  PatternFrom(a, Tail(bs), p1 \o SubSeq(a, m[1] + 1, m[1] + m[3]))

common_pattern(a, b) == PatternFrom(a, get_matching_blocks(Lower(a), Lower(b)), <<>>)

\* while l.count(common_pattern) > 1: l.remove(common_pattern)
RECURSIVE RemoveExtra(_, _)
RemoveExtra(x, l) == IF Count(x, l) > 1 THEN RemoveExtra(x, Remove(x, l)) ELSE l

\* lines 134-136: b is replaced by the pattern, whose extra copies go
ReplaceBy(l, b, pat) == RemoveExtra(pat, [l EXCEPT ![Index(b, l)] = pat])

\* lines 129-138 once the close match is known
PatternOrAppend(a, l, b) ==
    IF b # <<>> THEN ReplaceBy(l, b[1], common_pattern(a, b[1])) ELSE Append(l, a)

\* the list l after get_common_pattern(a, l, cutoff), cutoff = num / den
get_common_pattern(a, l, num, den) == PatternOrAppend(a, l, get_close_matches(a, l, num, den))

(***************************************************************************)
(* Values                                                                  *)
(*                                                                         *)
(* A remote address or host name is the sequence of its dot-separated      *)
(* labels (split(".") and ".".join are the representation); the empty      *)
(* string is <<"">>.  A timestamp is the token list time.ctime().split()   *)
(* gives.  A cmdline is a str (an exec event's) or a list of str           *)
(* (psutil's), tagged by t.                                                *)
(***************************************************************************)
S_sh      == <<115, 104>>                               \* "sh"
S_nc      == <<110, 99>>                                \* "nc"
S_firefox == <<102, 105, 114, 101, 102, 111, 120>>      \* "firefox"
S_exec    == <<101, 120, 101, 99>>                      \* "exec"
S_80      == <<56, 48>>                                 \* "80"
S_alt     == <<32, 97, 108, 116, 101, 114, 110, 97, 116, 105, 118, 101, 61>>  \* " alternative="

NoIP == <<"">>
IP_A == <<"1", "2", "3", "4">>
IP_B == <<"5", "6", "7", "8">>
IPLiterals == {IP_A, IP_B}

CTimes == << <<"Mon", "Jan", "1", "23:59:59", "2024">>,
             <<"Tue", "Jan", "2", "00:00:01", "2024">>,
             <<"Tue", "Jan", "2", "00:00:01", "2029">> >>

StrVal(s)  == [t |-> "str", v |-> s]
ListVal(l) == [t |-> "list", v |-> l]

\* str(x) of a str, and of a list of quote-free str: "['a', 'b']"
RECURSIVE JoinRepr(_)
JoinRepr(l) ==
    IF l = <<>> THEN <<>>
    ELSE <<39>> \o Head(l) \o <<39>>
         \o (IF Len(l) > 1 THEN <<44, 32>> \o JoinRepr(Tail(l)) ELSE <<>>)

PyStr(x) == IF x.t = "str" THEN x.v ELSE <<91>> \o JoinRepr(x.v) \o <<93>>

\* Python's == between an int and a str is False
IntEqStr(n, s) == FALSE

\* an int n in a list of str
IntInStrList(n, l) == \E i \in 1..Len(l) : IntEqStr(n, l[i])

RECURSIVE Reverse(_)
Reverse(l) == IF l = <<>> THEN <<>> ELSE Append(Reverse(Tail(l)), Head(l))

\* ctime.split()[:3]
DayTokens(c) == SubSeq(c, 1, Min(3, Len(c)))

(***************************************************************************)
(* The collaborators of update_snitch                                      *)
(***************************************************************************)

\* socket.getnameinfo: the PTR records of the modelled network; a failed
\* lookup (also of the empty address) returns the address itself
reverse_dns_lookup(ip) == IF ip = IP_B THEN <<"mail", "example", "com">> ELSE ip

\* the labels are reversed unless the name parses as an IP address
reverse_domain_name(dns) == IF dns \in IPLiterals THEN dns ELSE Reverse(dns)

\* get_sha256: the hash of the file, or the all-zero value when it cannot be
\* read; readable says which
get_sha256(exe, readable) == IF readable THEN <<"sha256", exe>> ELSE <<"zeros", <<>>>>

\* get_vt_results: [raised, value, config].  vt is what the VirusTotal calls
\* do when they are made: "found" (get_object answers), "miss" (it raises,
\* caught at line 159) or "fail" (the upload of lines 161-163 raises too).
\* With an API key the request time is stored in the config (line 156).
get_vt_results(sha256, proc, config, vt, ctime) ==
    LET c1 == [config EXCEPT !.vtLast = ctime] IN
    IF config.vtKey = ""
    THEN [raised |-> FALSE, value |-> "File not analyzed (no api key)", config |-> config]
    ELSE IF vt = "found" THEN [raised |-> FALSE, value |-> "stats", config |-> c1]
    ELSE IF ~config.vtUpload
         THEN [raised |-> FALSE, value |-> "File not analyzed (analysis not found)", config |-> c1]
    ELSE IF vt = "fail" THEN [raised |-> TRUE, value |-> "", config |-> c1]
    ELSE [raised |-> FALSE, value |-> "stats", config |-> c1]

(***************************************************************************)
(* update_snitch (lines 256-311).  The dicts are functions; s.Latest is    *)
(* "Latest Entries", s.Remote is "Remote Addresses".  A Remote Addresses   *)
(* list is [first, exes]: element 0 ("First connection: ...") and the rest.*)
(* The result is [snitch, raised]: Python updates the ledger in place, so  *)
(* an exception of get_vt_results leaves what was done before it.          *)
(***************************************************************************)

\* d[k] = v
Put(d, k, v) == [x \in DOMAIN d \cup {k} |-> IF x = k THEN v ELSE d[x]]

\* the test of lines 283, 296 and 310
NotUnlogged(config, proc, conn) ==
    /\ ~IntInStrList(conn.port, config.unlog)
    /\ ~InList(proc.name, config.unlog)

\* lines 261-262 with "and" for "or"
UpdateLatestBoth(s, proc, ctime) ==
    IF proc.exe \notin DOMAIN s.Processes /\ proc.name \notin DOMAIN s.Names
    THEN [s EXCEPT !.Latest = Append(@, [ctime |-> ctime, name |-> proc.name, exe |-> proc.exe])]
    ELSE s

\* lines 261-262
UpdateLatest(s, proc, ctime) ==
    IF proc.exe \notin DOMAIN s.Processes \/ proc.name \notin DOMAIN s.Names
    THEN [s EXCEPT !.Latest = Append(@, [ctime |-> ctime, name |-> proc.name, exe |-> proc.exe])]
    ELSE s

\* lines 264-270
UpdateNames(s, proc, conn) ==
    IF proc.name \in DOMAIN s.Names
    THEN IF ~InList(proc.exe, s.Names[proc.name])
         THEN [s EXCEPT !.Names = Put(@, proc.name, Append(@[proc.name], proc.exe))]
         ELSE s
    ELSE IF conn.ip # NoIP \/ conn.port # 0
         THEN [s EXCEPT !.Names = Put(@, proc.name, <<proc.exe>>)]
         ELSE s

\* lines 273-284: the record of a new exe
NewEntry(s, proc, conn, sha256, ctime, reversed_dns, vtvalue) ==
    [name |-> proc.name,
     cmdlines |-> <<PyStr(proc.cmdline)>>,
     first_seen |-> ctime,
     last_seen |-> ctime,
     days_seen |-> 1,
     ports |-> <<conn.port>>,
     remote_addresses |-> IF NotUnlogged(s.Config, proc, conn) THEN <<reversed_dns>> ELSE <<>>,
     results |-> Put(<<>>, sha256, vtvalue)]

\* lines 287-288
AddAlternative(entry, proc) ==
    IF ~IsSubstring(proc.name, entry.name)
    THEN [entry EXCEPT !.name = @ \o S_alt \o proc.name] ELSE entry

\* lines 289-290 without the sort of line 291
AddCmdlineUnsorted(entry, proc) ==
    IF ~InList(PyStr(proc.cmdline), entry.cmdlines)
    THEN [entry EXCEPT !.cmdlines = get_common_pattern(PyStr(proc.cmdline), @, 8, 10)]
    ELSE entry

\* lines 289-291
AddCmdline(entry, proc) ==
    IF ~InList(PyStr(proc.cmdline), entry.cmdlines)
    THEN [entry EXCEPT !.cmdlines = SortStrs(get_common_pattern(PyStr(proc.cmdline), @, 8, 10))]
    ELSE entry

\* lines 292-294
AddPort(entry, conn) ==
    IF ~InList(conn.port, entry.ports)
    THEN [entry EXCEPT !.ports = SortInts(Append(@, conn.port))] ELSE entry

\* lines 295-297
AddRemoteAddress(entry, config, proc, conn, reversed_dns) ==
    IF ~InList(reversed_dns, entry.remote_addresses) /\ NotUnlogged(config, proc, conn)
    THEN [entry EXCEPT !.remote_addresses = Append(@, reversed_dns)] ELSE entry

\* lines 287-297: the updates of an existing record before the lookup
EntryBeforeLookup(s, entry, proc, conn, reversed_dns) ==
    AddRemoteAddress(AddPort(AddCmdline(AddAlternative(entry, proc), proc), conn),
                     s.Config, proc, conn, reversed_dns)

\* lines 300-301
CountDay(entry, ctime) ==
    IF DayTokens(ctime) # DayTokens(entry.last_seen)
    THEN [entry EXCEPT !.days_seen = @ + 1] ELSE entry

\* lines 300-302
EntryAfterLookup(entry, ctime) == [CountDay(entry, ctime) EXCEPT !.last_seen = ctime]

\* lines 304-311 (the "No processes found during polling" element is never
\* written by this program, so there is none to remove)
UpdateRemote(s, proc, conn, ctime, reversed_dns) ==
    IF reversed_dns \in DOMAIN s.Remote
    THEN IF ~InList(proc.exe, s.Remote[reversed_dns].exes)
         THEN [s EXCEPT !.Remote = Put(@, reversed_dns,
                   [@[reversed_dns] EXCEPT !.exes = <<proc.exe>> \o @])]
         ELSE s
    ELSE IF NotUnlogged(s.Config, proc, conn)
         THEN [s EXCEPT !.Remote = Put(@, reversed_dns, [first |-> ctime, exes |-> <<proc.exe>>])]
         ELSE s

\* update_snitch has returned / has raised
Returned(s) == [snitch |-> s, raised |-> FALSE]
Raised(s)   == [snitch |-> s, raised |-> TRUE]

\* lines 272-284 with the outcome look of get_vt_results
CreateEntry(s, proc, conn, sha256, ctime, reversed_dns, look) ==
    IF look.raised THEN Raised([s EXCEPT !.Config = look.config])
    ELSE Returned(UpdateRemote(
             [s EXCEPT !.Config = look.config,
                       !.Processes = Put(@, proc.exe,
                           NewEntry(s, proc, conn, sha256, ctime, reversed_dns, look.value))],
             proc, conn, ctime, reversed_dns))

\* lines 298-311 for a sha256 that is not in results, with the outcome look
LookupEntry(s, entry, proc, conn, sha256, ctime, reversed_dns, look) ==
    IF look.raised
    THEN Raised([s EXCEPT !.Config = look.config, !.Processes = Put(@, proc.exe, entry)])
    ELSE Returned(UpdateRemote(
             [s EXCEPT !.Config = look.config,
                       !.Processes = Put(@, proc.exe,
                           EntryAfterLookup([entry EXCEPT !.results = Put(@, sha256, look.value)],
                                            ctime))],
             proc, conn, ctime, reversed_dns))

\* lines 298-311, entry being the record after lines 286-297
UpdateEntry(s, entry, proc, conn, sha256, ctime, vt, reversed_dns) ==
    IF sha256 \in DOMAIN entry.results
    THEN Returned(UpdateRemote(
             [s EXCEPT !.Processes = Put(@, proc.exe, EntryAfterLookup(entry, ctime))],
             proc, conn, ctime, reversed_dns))
    ELSE LookupEntry(s, entry, proc, conn, sha256, ctime, reversed_dns,
                     get_vt_results(sha256, proc, s.Config, vt, ctime))

\* lines 271-311
UpdateProcesses(s, proc, conn, sha256, ctime, vt, reversed_dns) ==
    IF proc.exe \notin DOMAIN s.Processes
    THEN CreateEntry(s, proc, conn, sha256, ctime, reversed_dns,
                     get_vt_results(sha256, proc, s.Config, vt, ctime))
    ELSE UpdateEntry(s, EntryBeforeLookup(s, s.Processes[proc.exe], proc, conn, reversed_dns),
                     proc, conn, sha256, ctime, vt, reversed_dns)

update_snitch(snitch, proc, conn, sha256, ctime, vt) ==
    UpdateProcesses(UpdateNames(UpdateLatest(snitch, proc, ctime), proc, conn),
                    proc, conn, sha256, ctime, vt,
                    reverse_domain_name(reverse_dns_lookup(conn.ip)))

(***************************************************************************)
(* process_queue (lines 209-253).  An event is the dict the Producer       *)
(* pickled: [type, pid, name, cmdline] or [type, pid, port, ip].  A raising*)
(* first pass gives exc # "" and what known_pids had become by then.       *)
(***************************************************************************)

\* psutil.Process(pid).as_dict(attrs=[name, exe, cmdline, pid], ad_value=""):
\* NoSuchProcess when the pid has no process
psutil_Process(os, pid) ==
    IF ~os[pid].alive THEN [raised |-> TRUE]
    ELSE [raised |-> FALSE,
          info |-> [name |-> os[pid].name, exe |-> os[pid].exe,
                    cmdline |-> os[pid].cmdline, pid |-> pid]]

\* lines 224-226 and 235-237: the conn dict gains name, exe, cmdline
Enrich(proc, known_pids) ==
    [type |-> "conn", pid |-> proc.pid, port |-> proc.port, ip |-> proc.ip,
     name |-> known_pids[proc.pid].name,
     exe |-> known_pids[proc.pid].exe,
     cmdline |-> known_pids[proc.pid].cmdline]

\* lines 216-218 on the result sp of shlex.split: [exc, exe], exc naming what
\* shlex.split or the indexing raises
ExeOf(sp) ==
    IF ~sp.ok THEN [exc |-> "ValueError", exe |-> <<>>]
    ELSE IF Len(sp.toks) = 0 THEN [exc |-> "IndexError", exe |-> <<>>]
    ELSE IF sp.toks[1] # S_exec THEN [exc |-> "", exe |-> sp.toks[1]]
    ELSE IF Len(sp.toks) < 2 THEN [exc |-> "IndexError", exe |-> <<>>]
    ELSE [exc |-> "", exe |-> sp.toks[2]]

ExecExe(cmdline) == ExeOf(shlex_split(cmdline.v))

\* the locals of process_queue, and the exception that left it ("" for none)
Locals(exc, known_pids, pending_list, pending_conns) ==
    [exc |-> exc, known_pids |-> known_pids,
     pending_list |-> pending_list, pending_conns |-> pending_conns]

\* the loop of lines 214-232
RECURSIVE FirstPass(_, _, _, _, _, _)

\* lines 216-221 without the test of line 220
ExecStepAlways(proc, x, rest, config, known_pids, pending_list, pending_conns, os) ==
    IF x.exc # "" THEN Locals(x.exc, known_pids, pending_list, pending_conns)
    ELSE FirstPass(rest, config,
                   Put(known_pids, proc.pid,
                       [type |-> "exec", pid |-> proc.pid, name |-> proc.name,
                        cmdline |-> proc.cmdline, exe |-> x.exe]),
                   Append(pending_list,
                          [type |-> "exec", pid |-> proc.pid, name |-> proc.name,
                           cmdline |-> proc.cmdline, exe |-> x.exe]),
                   pending_conns, os)

\* lines 216-221, x being ExecExe of the event
ExecStep(proc, x, rest, config, known_pids, pending_list, pending_conns, os) ==
    IF x.exc # "" THEN Locals(x.exc, known_pids, pending_list, pending_conns)
    ELSE FirstPass(rest, config,
                   Put(known_pids, proc.pid,
                       [type |-> "exec", pid |-> proc.pid, name |-> proc.name,
                        cmdline |-> proc.cmdline, exe |-> x.exe]),
                   IF ~config.onlyLog
                   THEN Append(pending_list,
                               [type |-> "exec", pid |-> proc.pid, name |-> proc.name,
                                cmdline |-> proc.cmdline, exe |-> x.exe])
                   ELSE pending_list,
                   pending_conns, os)

\* lines 229-232, ps being what psutil gives for the pid
LookupStep(proc, ps, rest, config, known_pids, pending_list, pending_conns, os) ==
    IF ps.raised THEN Locals("NoSuchProcess", known_pids, pending_list, pending_conns)
    ELSE FirstPass(rest, config,
                   IF ps.info.exe # <<>> THEN Put(known_pids, ps.info.pid, ps.info)
                   ELSE known_pids,
                   pending_list, Append(pending_conns, proc), os)

FirstPass(new_processes, config, known_pids, pending_list, pending_conns, os) ==
    IF new_processes = <<>> THEN Locals("", known_pids, pending_list, pending_conns)
    ELSE IF Head(new_processes).type = "exec"
    THEN ExecStep(Head(new_processes), ExecExe(Head(new_processes).cmdline),
                  Tail(new_processes), config, known_pids, pending_list, pending_conns, os)
    ELSE IF Head(new_processes).pid \in DOMAIN known_pids
    THEN FirstPass(Tail(new_processes), config, known_pids,
                   Append(pending_list, Enrich(Head(new_processes), known_pids)),
                   pending_conns, os)
    ELSE LookupStep(Head(new_processes), psutil_Process(os, Head(new_processes).pid),
                    Tail(new_processes), config, known_pids, pending_list, pending_conns, os)

\* the loop of lines 233-240: [pending_list, Errors]
RECURSIVE SecondPass(_, _, _, _, _)
SecondPass(missed_conns, known_pids, pending_list, errors, ctime) ==
    IF missed_conns = <<>> THEN [pending_list |-> pending_list, Errors |-> errors]
    ELSE IF Head(missed_conns).pid \in DOMAIN known_pids
    THEN SecondPass(Tail(missed_conns), known_pids,
                    Append(pending_list, Enrich(Head(missed_conns), known_pids)),
                    errors, ctime)
    ELSE SecondPass(Tail(missed_conns), known_pids, pending_list,
                    Append(errors, [ctime |-> ctime,
                                    msg |-> "no known process for conn: ",
                                    proc |-> Head(missed_conns)]),
                    ctime)

\* lines 243-246
ConnOf(proc) ==
    IF proc.type = "conn" THEN [ip |-> proc.ip, port |-> proc.port]
    ELSE [ip |-> NoIP, port |-> 0]

\* lines 249-251: the ledger after the try of lines 242-248 gave r
Trapped(r, proc, ctime) ==
    IF r.raised
    THEN [r.snitch EXCEPT !.Errors =
             Append(@, [ctime |-> ctime, msg |-> "Exception", proc |-> proc])]
    ELSE r.snitch

\* the loop of lines 241-252
RECURSIVE ThirdPass(_, _, _, _, _)
ThirdPass(pending_list, snitch, ctime, readable, vt) ==
    IF pending_list = <<>> THEN snitch
    ELSE ThirdPass(Tail(pending_list),
                   Trapped(update_snitch(snitch, Head(pending_list), ConnOf(Head(pending_list)),
                                         get_sha256(Head(pending_list).exe, readable), ctime, vt),
                           Head(pending_list), ctime),
                   ctime, readable, vt)

\* lines 241-253, p1 being the locals after the first pass and p2 the
\* pending_list and Errors after the second
Merged(snitch, p1, p2, ctime, readable, vt) ==
    [exc |-> "",
     snitch |-> ThirdPass(p2.pending_list, [snitch EXCEPT !.Errors = p2.Errors],
                          ctime, readable, vt),
     known_pids |-> p1.known_pids,
     pending_list |-> p2.pending_list, pending_conns |-> p1.pending_conns]

\* lines 233-253, p1 being the locals after the first pass
AfterFirstPass(snitch, missed_conns, ctime, readable, vt, p1) ==
    IF p1.exc # ""
    THEN [exc |-> p1.exc, snitch |-> snitch, known_pids |-> p1.known_pids,
          pending_list |-> p1.pending_list, pending_conns |-> p1.pending_conns]
    ELSE Merged(snitch, p1,
                SecondPass(missed_conns, p1.known_pids, p1.pending_list, snitch.Errors, ctime),
                ctime, readable, vt)

\* process_queue: [exc, snitch, known_pids, pending_list, pending_conns];
\* pending_conns is the value returned when exc = ""
process_queue(snitch, known_pids, missed_conns, new_processes, ctime, os, readable, vt) ==
    AfterFirstPass(snitch, missed_conns, ctime, readable, vt,
                   FirstPass(new_processes, snitch.Config, known_pids, <<>>, <<>>, os))

(***************************************************************************)
(* The modelled world: two pids, the events the Producer can emit for      *)
(* them, and what psutil reports for them.                                 *)
(***************************************************************************)
MaxEvents == 3      \* events the Producer emits in a run
MaxQueue  == 2      \* events waiting in q_snitch
MaxCalls  == 2      \* direct update_snitch calls in a run
MaxCmdCalls == 3    \* update_snitch calls of the cmdline runs

PIDs == {"100", "200"}

C_sh_a    == <<115, 104, 32, 45, 97>>       \* "sh -a"
C_sh_b    == <<115, 104, 32, 45, 98>>       \* "sh -b"
C_exec_nc == S_exec \o <<32>> \o S_nc       \* "exec nc"
C_empty   == <<>>                           \* ""
C_quote   == <<39>> \o S_sh                 \* "'sh"
S_bin_sh  == <<47, 98, 105, 110, 47>> \o S_sh    \* "/bin/sh"

ExecEvent(pid, name, cmdline) ==
    [type |-> "exec", pid |-> pid, name |-> name, cmdline |-> StrVal(cmdline)]
ConnEvent(pid, ip, port) == [type |-> "conn", pid |-> pid, port |-> port, ip |-> ip]

\* queue_exec_event (line 386): pid 100 runs "sh -a" or an execve whose
\* argv joins to "", "exec" or "'sh"; pid 200 runs "exec nc" under the name
\* firefox
ExecEvents ==
    {ExecEvent("100", S_sh, c) : c \in {C_sh_a, C_empty, S_exec, C_quote}}
    \cup {ExecEvent("200", S_firefox, C_exec_nc)}

\* queue_ipv4_event / queue_ipv6_event (port # 0) and queue_other_event
ConnEvents ==
    {ConnEvent(pid, IP_B, 80) : pid \in PIDs} \cup {ConnEvent("200", NoIP, 0)}

Events == ExecEvents \cup ConnEvents

NoProcess == [alive |-> FALSE, name |-> <<>>, exe |-> <<>>, cmdline |-> StrVal(<<>>)]

\* what psutil reports for a live pid: pid 100 is a readable /bin/sh, pid 200
\* a process whose exe and cmdline cannot be read (ad_value "")
LiveProcess(pid) ==
    IF pid = "100"
    THEN [alive |-> TRUE, name |-> S_sh, exe |-> S_bin_sh,
          cmdline |-> ListVal(<<S_sh, <<45, 97>>>>)]
    ELSE [alive |-> TRUE, name |-> S_firefox, exe |-> <<>>, cmdline |-> StrVal(<<>>)]

\* read(): the template of lines 50-57, with the operator's settings
Configs ==
    {[onlyLog |-> o, unlog |-> <<S_firefox, S_80>>, vtKey |-> k[1], vtUpload |-> k[2],
      vtLast |-> <<>>] : o \in BOOLEAN, k \in {<<"", FALSE>>, <<"key", TRUE>>}}

EmptySnitch(config) ==
    [Config |-> config, Errors |-> <<>>, Latest |-> <<>>,
     Names |-> <<>>, Processes |-> <<>>, Remote |-> <<>>]

VTOutcomes == {"found", "miss", "fail"}

(***************************************************************************)
(* State                                                                   *)
(***************************************************************************)
VARIABLES
    snitch,         \* the ledger dict of loop()
    known_pids,     \* loop's known_pids
    missed_conns,   \* loop's missed_conns
    q_snitch,       \* the event queue between Producer and Correlator
    os_procs,       \* the operating system's process table
    now,            \* the clock: time.ctime() is CTimes[now]
    corr,           \* where the Correlator is: "loop", or "crashed" after an
                    \* exception has left loop()
    nev,            \* events emitted / update_snitch calls made so far
    last,           \* the last handler run: its arguments and locals
    q_error,        \* the error queue to the Correlator
    q_term,         \* the terminate queue from the Correlator to the Supervisor
    q_term_monitor, \* the terminate queue from the Supervisor to the Producer
    sup,            \* the Supervisor (snitch_monitor): its position and locals
    prod,           \* the Producer processes (snitch_linux) and their memory
    priv,           \* the main process's uid and the SUDO_UID it was given
    disk,           \* the uids under which snitch.json has been written
    inst,           \* the instances of picosnitch: where each one is
    lock,           \* the holder of ~/.picosnitch_lock, 0 when it is free
    perf,           \* the records in the perf buffer, per process that called execve
    argv,           \* queue_exec_event's argv: the arguments buffered per pid
    clock,          \* time.time(), in seconds
    last_write,     \* loop()'s last_write
    sizeof_snitch   \* loop()'s sizeof_snitch

\* the Producer's exec records and the loop's bookkeeping of its writes
sidevars == <<perf, argv, clock, last_write, sizeof_snitch>>

\* what the steps of process_queue and update_snitch leave alone
procvars == <<q_error, q_term, q_term_monitor, sup, prod, priv, disk, inst, lock,
              sidevars>>

vars == <<snitch, known_pids, missed_conns, q_snitch, os_procs, now, corr, nev, last,
          q_error, q_term, q_term_monitor, sup, prod, priv, disk, inst, lock,
          perf, argv, clock, last_write, sizeof_snitch>>

\* the instances that may be started
Instances == {1, 2}

\* an instance: where its main process is and whether the Supervisor
\* process it started is alive
NotStarted == [pc |-> "none", child |-> FALSE]
InLoop     == [pc |-> "loop", child |-> TRUE]

\* the wall clock when picosnitch starts, in seconds since the epoch
T0 == 1000

\* nothing in the perf buffer, no argument buffered, last_write as line 339
\* sets it; sizeof_snitch is set when a specification's Init reaches line 338
Quiet ==
    /\ perf = [p \in PIDs |-> <<>>]
    /\ argv = [p \in PIDs |-> <<>>]
    /\ clock = T0
    /\ last_write = 0
    /\ sizeof_snitch = 0

\* the Supervisor running with its first Producer, the main process with
\* its privileges dropped, one instance in the loop holding the lock
Settled ==
    /\ q_error = <<>>
    /\ q_term = <<>>
    /\ q_term_monitor = <<>>
    /\ sup = [pc |-> "check", p |-> 1, cooled |-> FALSE, forwarded |-> FALSE, why |-> ""]
    /\ prod = [alive |-> {1}, high |-> FALSE, exit |-> ""]
    /\ priv = [uid |-> 1000, SUDO_UID |-> 1000]
    /\ disk = {}
    /\ inst = [i \in Instances |-> IF i = 1 THEN InLoop ELSE NotStarted]
    /\ lock = 1
    /\ Quiet

\* loop(), lines 320-341, before the first iteration: initial_poll has found
\* no process with a readable executable and no connection, and the
\* processes of os_procs have started since
Init ==
    /\ snitch \in {EmptySnitch(c) : c \in Configs}
    /\ known_pids = <<>>
    /\ missed_conns = <<>>
    /\ q_snitch = <<>>
    /\ os_procs \in {[pid \in PIDs |-> IF pid \in live THEN LiveProcess(pid) ELSE NoProcess] :
                        live \in SUBSET PIDs}
    /\ now = 1
    /\ corr = "loop"
    /\ nev = 0
    /\ last = [op |-> "none"]
    /\ Settled

\* the Producer's callbacks put one event on q_snitch (lines 386-399)
Emit(e) ==
    /\ nev < MaxEvents
    /\ Len(q_snitch) < MaxQueue
    /\ q_snitch' = Append(q_snitch, e)
    /\ nev' = nev + 1
    /\ UNCHANGED <<snitch, known_pids, missed_conns, os_procs, now, corr, last>>
    /\ UNCHANGED procvars

\* a process ends
ProcExit(pid) ==
    /\ os_procs[pid].alive
    /\ os_procs' = [os_procs EXCEPT ![pid] = NoProcess]
    /\ UNCHANGED <<snitch, known_pids, missed_conns, q_snitch, now, corr, nev, last>>
    /\ UNCHANGED procvars

\* the clock advances
Tick ==
    /\ now < Len(CTimes)
    /\ now' = now + 1
    /\ UNCHANGED <<snitch, known_pids, missed_conns, q_snitch, os_procs, corr, nev, last>>
    /\ UNCHANGED procvars

\* line 359 and what follows it: r is what process_queue did
Drained(r) ==
    /\ q_snitch' = <<>>
    /\ known_pids' = r.known_pids
    /\ last' = [op |-> "drain", exc |-> r.exc, pending_list |-> r.pending_list]
    /\ IF r.exc # ""
       THEN /\ corr' = "crashed"
            /\ UNCHANGED <<snitch, missed_conns>>
       ELSE /\ snitch' = r.snitch
            /\ missed_conns' = r.pending_conns
            /\ UNCHANGED corr

\* one iteration of loop(), lines 354-359: the queue is emptied into
\* new_processes and process_queue runs; an exception it lets through ends
\* loop() with known_pids as far as it got
Drain(readable, vt) ==
    /\ corr = "loop"
    /\ q_snitch # <<>> \/ missed_conns # <<>>
    /\ Drained(process_queue(snitch, known_pids, missed_conns, q_snitch,
                             CTimes[now], os_procs, readable, vt))
    /\ UNCHANGED <<os_procs, now, nev>>
    /\ UNCHANGED procvars

Next ==
    \/ \E e \in Events : Emit(e)
    \/ \E pid \in PIDs : ProcExit(pid)
    \/ Tick
    \/ \E readable \in BOOLEAN, vt \in VTOutcomes : Drain(readable, vt)

Spec == Init /\ [][Next]_vars

(***************************************************************************)
(* update_snitch called directly, one call per step, on a ledger that      *)
(* starts empty: the caller hands over the process, the connection, what   *)
(* get_sha256 gave for the executable, and time.ctime().                   *)
(***************************************************************************)
\* the process dicts handed to update_snitch: a name, an exe, a cmdline
MergeProcs ==
    {[name |-> n, exe |-> e, cmdline |-> StrVal(C_sh_a)] :
        n \in {S_sh, S_firefox}, e \in {S_sh, S_nc}}

\* the connection dicts: the empty one of an exec-only or "other" event
\* (line 246, line 399) and two TCP connections
MergeConns ==
    {[ip |-> NoIP, port |-> 0], [ip |-> IP_A, port |-> 80], [ip |-> IP_B, port |-> 443]}

\* the ledger before the first call: read()'s template with a config
InitMerge ==
    /\ snitch \in {EmptySnitch(c) : c \in {d \in Configs : d.onlyLog}}
    /\ known_pids = <<>>
    /\ missed_conns = <<>>
    /\ q_snitch = <<>>
    /\ os_procs = [pid \in PIDs |-> NoProcess]
    /\ now = 1
    /\ corr = "loop"
    /\ nev = 0
    /\ last = [op |-> "none"]
    /\ Settled

\* r is what update_snitch did to the ledger
MergeDone(proc, conn, r) ==
    /\ snitch' = r.snitch
    /\ last' = [op |-> "merge", proc |-> proc, conn |-> conn, raised |-> r.raised]
    /\ nev' = nev + 1
    /\ UNCHANGED <<known_pids, missed_conns, q_snitch, os_procs, now, corr>>
    /\ UNCHANGED procvars

\* one call update_snitch(snitch, proc, conn, get_sha256(proc["exe"]), time.ctime())
MergeCall(proc, conn, readable, vt) ==
    MergeDone(proc, conn,
              update_snitch(snitch, proc, conn, get_sha256(proc.exe, readable),
                            CTimes[now], vt))

NextMerge ==
    \/ /\ nev < MaxCalls
       /\ \E proc \in MergeProcs, conn \in MergeConns, readable \in BOOLEAN, vt \in VTOutcomes :
              MergeCall(proc, conn, readable, vt)
    \/ Tick

SpecMerge == InitMerge /\ [][NextMerge]_vars

(***************************************************************************)
(* update_snitch called again and again for one executable with changing   *)
(* command lines: the similarity rule of lines 289-291 at work.            *)
(***************************************************************************)
C_bbs   == <<98, 98, 42>>            \* "bb*"
C_bsbs  == <<98, 42, 98, 42>>        \* "b*b*"
C_babs  == <<98, 97, 98, 42>>        \* "bab*"

\* the cmdline values: strings, and one argv list as psutil gives it
CmdLines ==
    {StrVal(c) : c \in {C_sh_a, C_sh_b, C_bbs, C_bsbs, C_babs}}
    \cup {ListVal(<<S_sh>>)}

InitCmdline ==
    /\ snitch \in {EmptySnitch(c) : c \in {d \in Configs : d.onlyLog}}
    /\ known_pids = <<>>
    /\ missed_conns = <<>>
    /\ q_snitch = <<>>
    /\ os_procs = [pid \in PIDs |-> NoProcess]
    /\ now = 1
    /\ corr = "loop"
    /\ nev = 0
    /\ last = [op |-> "none"]
    /\ Settled

CmdlineCall(c, readable, vt) ==
    MergeCall([name |-> S_sh, exe |-> S_bin_sh, cmdline |-> c],
              [ip |-> NoIP, port |-> 0], readable, vt)

NextCmdline ==
    /\ nev < MaxCmdCalls
    /\ \E c \in CmdLines, readable \in BOOLEAN, vt \in {"found", "fail"} :
           CmdlineCall(c, readable, vt)

SpecCmdline == InitCmdline /\ [][NextCmdline]_vars

(***************************************************************************)
(* Properties of process_queue, stated over the steps of Spec              *)
(***************************************************************************)
\* a step of Spec in which loop() ran process_queue
DrainStep ==
    /\ corr = "loop"
    /\ last'.op = "drain"
    /\ UNCHANGED <<os_procs, now, nev>>

\* the merged dicts of pending_list that carry the connection c
MergedCopies(c, pending_list) ==
    Cardinality({k \in 1..Len(pending_list) :
                    /\ pending_list[k].type = "conn"
                    /\ pending_list[k].pid = c.pid
                    /\ pending_list[k].ip = c.ip
                    /\ pending_list[k].port = c.port})

\* the event at position i of the batch is a conn, the only one of its
\* value in the batch, whose pid is not in known_pids when it is processed:
\* the pid is absent at entry and no earlier event of the batch carries it
UnknownAt(batch, i, pids) ==
    /\ batch[i].type = "conn"
    /\ Count(batch[i], batch) = 1
    /\ batch[i].pid \notin DOMAIN pids
    /\ \A j \in 1..(i - 1) : batch[j].pid # batch[i].pid

\* C1: a conn event whose pid is not in known_pids when it is processed
\* is not merged in that drain and is in the returned pending_conns exactly
\* once; a deferred conn whose pid is in known_pids after the first pass of
\* the next drain is merged exactly once during that drain.
C1_DeferredThenMerged ==
    [][DrainStep =>
        /\ \A i \in 1..Len(q_snitch) :
              UnknownAt(q_snitch, i, known_pids) =>
                  /\ last'.exc = ""
                  /\ Count(q_snitch[i], missed_conns') = 1
                  /\ MergedCopies(q_snitch[i], last'.pending_list)
                         = IF q_snitch[i].pid \in DOMAIN known_pids'
                           THEN Count(q_snitch[i], missed_conns) ELSE 0
        /\ \A k \in 1..Len(missed_conns) :
              (missed_conns[k].pid \in DOMAIN known_pids'
                 /\ Count(missed_conns[k], missed_conns) = 1
                 /\ ~InList(missed_conns[k], q_snitch)) =>
                  /\ last'.exc = ""
                  /\ MergedCopies(missed_conns[k], last'.pending_list) = 1
                  /\ ~InList(missed_conns[k], missed_conns')]_vars

\* the Errors line of line 240 for the conn c
NoKnownProcessLine(c, ctime) ==
    [ctime |-> ctime, msg |-> "no known process for conn: ", proc |-> c]

\* C2: a conn event for a pid that is in no batch as an exec event and
\* has no live process is queued once by the drain that receives it, and
\* the next drain appends exactly one "no known process for conn:" line to
\* Errors, changes nothing in Processes and drops the conn.
C2_UnknownPidReported ==
    [][DrainStep =>
        /\ (/\ Len(q_snitch) = 1
            /\ missed_conns = <<>>
            /\ q_snitch[1].type = "conn"
            /\ q_snitch[1].pid \notin DOMAIN known_pids
            /\ ~os_procs[q_snitch[1].pid].alive) =>
               /\ last'.exc = ""
               /\ missed_conns' = q_snitch
               /\ snitch' = snitch
        /\ (/\ q_snitch = <<>>
            /\ Len(missed_conns) = 1
            /\ missed_conns[1].pid \notin DOMAIN known_pids) =>
               /\ last'.exc = ""
               /\ snitch'.Errors = Append(snitch.Errors,
                                          NoKnownProcessLine(missed_conns[1], CTimes[now]))
               /\ snitch'.Processes = snitch.Processes
               /\ missed_conns' = <<>>]_vars

\* lines 216-218 raise on the cmdline of the exec event e
BadExec(e) == e.type = "exec" /\ ExecExe(e.cmdline).exc # ""

\* C3: for a batch that holds an exec event whose cmdline fails to parse
\* or yields no token, process_queue returns normally: the Correlator goes
\* on, and Errors has gained a line for every such event.
C3_ReturnsNormally ==
    [][(DrainStep /\ \E i \in 1..Len(q_snitch) : BadExec(q_snitch[i])) =>
        /\ last'.exc = ""
        /\ corr' = "loop"
        /\ Len(snitch'.Errors) >= Len(snitch.Errors)
               + Cardinality({i \in 1..Len(q_snitch) : BadExec(q_snitch[i])})]_vars

(***************************************************************************)
(* Properties of update_snitch, stated over the steps of SpecMerge and     *)
(* SpecCmdline                                                             *)
(***************************************************************************)
\* a step in which update_snitch was called with last'.proc and last'.conn
MergeStep == last'.op = "merge" /\ nev' = nev + 1

\* str(n) of a port number
RECURSIVE DecStr(_)
DecStr(n) == IF n < 10 THEN <<48 + n>> ELSE DecStr(n \div 10) \o <<48 + (n % 10)>>

\* the event is one the operator's "Remote address unlog" list names: by the
\* string form of its port or by its process name
Filtered(config, proc, conn) ==
    InList(DecStr(conn.port), config.unlog) \/ InList(proc.name, config.unlog)

\* the key under which update_snitch files the connection (line 259)
ReversedDns(conn) == reverse_domain_name(reverse_dns_lookup(conn.ip))

\* Latest Entries has a line for the pair of proc
HasLine(latest, proc) ==
    \E i \in 1..Len(latest) : latest[i].name = proc.name /\ latest[i].exe = proc.exe

\* C4: a call of update_snitch appends exactly one line to Latest
\* Entries if at entry the exe is not a key of Processes or the name is not
\* a key of Names, and leaves Latest Entries as it was otherwise.
C4_LatestTrigger ==
    [][MergeStep =>
        IF \/ last'.proc.exe \notin DOMAIN snitch.Processes
           \/ last'.proc.name \notin DOMAIN snitch.Names
        THEN /\ Len(snitch'.Latest) = Len(snitch.Latest) + 1
             /\ SubSeq(snitch'.Latest, 1, Len(snitch.Latest)) = snitch.Latest
        ELSE snitch'.Latest = snitch.Latest]_vars

\* C4 witness: after two calls, one has appended a line and one has not
C4_Witness ==
    /\ last.op = "merge"
    /\ nev = 2
    /\ Len(snitch.Latest) = 1
    /\ last.proc.exe \in DOMAIN snitch.Processes

\* C5: merging a (name, exe) pair that was merged earlier, of which a
\* line for the pair in Latest Entries is the trace, never adds another
\* line; exec-only events and "other" conn events included.
C5_OneLinePerPair ==
    [][(MergeStep /\ HasLine(snitch.Latest, last'.proc)) =>
        snitch'.Latest = snitch.Latest]_vars

\* C6: when the string form of the port or the process name is in
\* "Remote address unlog", after the call the reversed DNS name is not in the
\* remote addresses of the exe's record and Remote Addresses has no new key.
C6_FilterInvariant ==
    [][(MergeStep /\ Filtered(snitch.Config, last'.proc, last'.conn)) =>
        /\ last'.proc.exe \in DOMAIN snitch'.Processes =>
               ~InList(ReversedDns(last'.conn),
                       snitch'.Processes[last'.proc.exe].remote_addresses)
        /\ DOMAIN snitch'.Remote = DOMAIN snitch.Remote]_vars

\* C7: a call for a filtered event adds its exe to no list of Remote
\* Addresses, be the key new or there from an earlier unfiltered event.
C7_FilteredExeNotListed ==
    [][(MergeStep /\ Filtered(snitch.Config, last'.proc, last'.conn)) =>
        \A k \in DOMAIN snitch'.Remote :
            InList(last'.proc.exe, snitch'.Remote[k].exes) =>
                /\ k \in DOMAIN snitch.Remote
                /\ InList(last'.proc.exe, snitch.Remote[k].exes)]_vars

\* C8: every exe E of Processes whose stored name N is a key of Names
\* is in the list Names[N].
C8_NamesHoldExes ==
    \A E \in DOMAIN snitch.Processes :
        snitch.Processes[E].name \in DOMAIN snitch.Names =>
            InList(E, snitch.Names[snitch.Processes[E].name])

\* C9: a call for an exe that has a record adds exactly 1 to days seen
\* when the first three tokens of the timestamp differ from those of the
\* stored last seen and nothing otherwise; days seen never decreases, and
\* last seen is the timestamp of the latest call for the exe.
C9_DaysSeen ==
    [][/\ \A E \in DOMAIN snitch.Processes :
             /\ E \in DOMAIN snitch'.Processes
             /\ snitch'.Processes[E].days_seen >= snitch.Processes[E].days_seen
       /\ (MergeStep /\ last'.proc.exe \in DOMAIN snitch.Processes) =>
             /\ snitch'.Processes[last'.proc.exe].days_seen
                  = snitch.Processes[last'.proc.exe].days_seen
                    + (IF DayTokens(CTimes[now])
                            # DayTokens(snitch.Processes[last'.proc.exe].last_seen)
                       THEN 1 ELSE 0)
             /\ snitch'.Processes[last'.proc.exe].last_seen = CTimes[now]]_vars

\* the list is in Python's string order
Sorted(l) == \A i \in 1..Len(l) : \A j \in (i + 1)..Len(l) : ~StrLess(l[j], l[i])

\* the list has no element twice
NoDuplicates(l) == \A i \in 1..Len(l) : \A j \in (i + 1)..Len(l) : l[i] # l[j]

Elements(l) == {l[i] : i \in 1..Len(l)}

\* SequenceMatcher(None, x, a).ratio() >= 0.8
NearMatch(x, a) == 10 * 2 * Matches(x, a) >= 8 * (Len(x) + Len(a))

\* p is a with some characters replaced by "*"
IsPatternOf(p, a) ==
    Len(p) = Len(a) /\ \A i \in 1..Len(a) : p[i] = a[i] \/ p[i] = 42

\* what the similarity rule may make of the list old when it inserts a
SimilarityInsert(old, new, a) ==
    /\ Len(new) <= Len(old) + 1
    /\ Len(new) >= 1
    /\ Sorted(new)
    /\ NoDuplicates(new)
    /\ IF \E i \in 1..Len(old) : NearMatch(old[i], a)
       THEN \E i \in 1..Len(old), k \in 1..Len(new) :
                /\ NearMatch(old[i], a)
                /\ IsPatternOf(new[k], a)
                /\ Elements(new) = (Elements(old) \ {old[i]}) \cup {new[k]}
       ELSE Elements(new) = Elements(old) \cup {a} /\ Len(new) = Len(old) + 1

\* C10: when a call inserts a cmdline into the record of an exe by the
\* similarity rule, the list gains at most one element, is sorted, has no
\* duplicates and is not empty, and a near match (ratio >= 0.8) is replaced
\* by the wildcard pattern instead of being kept next to the new cmdline.
C10_CmdlinesAfterInsert ==
    [][(/\ MergeStep
        /\ last'.proc.exe \in DOMAIN snitch.Processes
        /\ ~InList(PyStr(last'.proc.cmdline), snitch.Processes[last'.proc.exe].cmdlines)) =>
            SimilarityInsert(snitch.Processes[last'.proc.exe].cmdlines,
                             snitch'.Processes[last'.proc.exe].cmdlines,
                             PyStr(last'.proc.cmdline))]_vars

\* C10 witness: "bb*" and "b*b*" are in the list and "bab*" comes: its near
\* match "bb*" becomes "b*b*", which the list already had
C10_Witness ==
    /\ last.op = "merge"
    /\ nev = 3
    /\ last.proc.cmdline = StrVal(C_babs)
    /\ S_bin_sh \in DOMAIN snitch.Processes
    /\ snitch.Processes[S_bin_sh].cmdlines = <<C_bsbs>>

(***************************************************************************)
(* initial_poll (lines 172-206).  A connection of psutil.net_connections   *)
(* is [pid, ip, port], pid "None" for a socket without owner and ip NoIP   *)
(* for one without remote address.                                         *)
(***************************************************************************)
MaxLoopEvents == 2      \* events the Producer emits in a run of loop()

IP_P == <<"10", "0", "0", "1">>     \* a private address

is_private(ip) == ip = IP_P

\* os.path.isfile(exe)
isfile(exe) == exe # <<>>

\* the proc dict of line 180
BlankProc == [name |-> <<>>, exe |-> <<>>, cmdline |-> StrVal(<<>>), pid |-> ""]

\* proc.info of the process pid (lines 176)
InfoOf(os, pid) ==
    [name |-> os[pid].name, exe |-> os[pid].exe, cmdline |-> os[pid].cmdline, pid |-> pid]

\* psutil.process_iter, in pid order
Enumerated(os) == SelectSeq(<<"100", "200">>, LAMBDA pid : os[pid].alive)

\* lines 176-179: [current_processes, known_pids]; current_processes is the
\* dict keyed by exe, as the list of its values in insertion order, and
\* every descriptor is stored in known_pids under the key "pid"
RECURSIVE Enumerate(_, _, _, _)
Enumerate(pids, os, current_processes, known) ==
    IF pids = <<>> THEN [current_processes |-> current_processes, known_pids |-> known]
    ELSE IF isfile(os[Head(pids)].exe)
    THEN Enumerate(Tail(pids), os,
                   Append(SelectSeq(current_processes,
                                    LAMBDA i : i.exe # os[Head(pids)].exe),
                          InfoOf(os, Head(pids))),
                   Put(known, "pid", InfoOf(os, Head(pids))))
    ELSE Enumerate(Tail(pids), os, current_processes, known)

\* lines 190-196: the Errors line for the connection conn, proc being the
\* local of that name when the exception came
InitError(s, conn, proc, ctime) ==
    [s EXCEPT !.Errors =
        Append(@, [ctime |-> ctime, msg |-> "Init", conn |-> conn,
                   proc |-> IF conn.pid = proc.pid THEN proc
                            ELSE [pid |-> "process no longer exists"]])]

\* the locals of the loop of lines 182-196
PollState(s, current_processes, proc) ==
    [snitch |-> s, current_processes |-> current_processes, proc |-> proc]

\* line 188
Pop(current_processes, exe) == SelectSeq(current_processes, LAMBDA i : i.exe # exe)

\* lines 189-196: the ledger after update_snitch gave r
ConnTrapped(r, conn, proc, ctime) ==
    IF r.raised THEN InitError(r.snitch, conn, proc, ctime) ELSE r.snitch

\* lines 185-196 once psutil.Process(conn.pid) gave ps
PollConn(st, conn, ps, ctime, readable, vt) ==
    IF ps.raised
    THEN PollState(InitError(st.snitch, conn, st.proc, ctime), st.current_processes, st.proc)
    ELSE PollState(
             ConnTrapped(update_snitch(st.snitch, ps.info,
                                       [ip |-> conn.ip, port |-> conn.port],
                                       get_sha256(ps.info.exe, readable), ctime, vt),
                         conn, ps.info, ctime),
             Pop(st.current_processes, ps.info.exe), ps.info)

\* the loop of lines 182-196
RECURSIVE PollConns(_, _, _, _, _, _)
PollConns(conns, st, os, ctime, readable, vt) ==
    IF conns = <<>> THEN st
    ELSE IF Head(conns).pid = "None" \/ Head(conns).ip = NoIP \/ is_private(Head(conns).ip)
    THEN PollConns(Tail(conns), st, os, ctime, readable, vt)
    ELSE PollConns(Tail(conns),
                   PollConn(st, Head(conns), psutil_Process(os, Head(conns).pid),
                            ctime, readable, vt),
                   os, ctime, readable, vt)

\* lines 204-206: the ledger after the try of lines 201-203 gave r
InitTrapped(r, proc, ctime) ==
    IF r.raised
    THEN [r.snitch EXCEPT !.Errors =
             Append(@, [ctime |-> ctime, msg |-> "Init", proc |-> proc])]
    ELSE r.snitch

\* the loop of lines 199-206
RECURSIVE PollProcesses(_, _, _, _, _)
PollProcesses(current_processes, s, ctime, readable, vt) ==
    IF current_processes = <<>> THEN s
    ELSE PollProcesses(Tail(current_processes),
                       InitTrapped(update_snitch(s, Head(current_processes),
                                                 [ip |-> NoIP, port |-> 0],
                                                 get_sha256(Head(current_processes).exe, readable),
                                                 ctime, vt),
                                   Head(current_processes), ctime),
                       ctime, readable, vt)

\* lines 197-206, st being the locals after the loop of lines 182-196
AfterConns(st, ctime, readable, vt) ==
    IF ~st.snitch.Config.onlyLog
    THEN PollProcesses(st.current_processes, st.snitch, ctime, readable, vt)
    ELSE st.snitch

\* lines 180-206, en being what lines 176-179 made
PollFrom(ledger, en, conns, ctime, os, readable, vt) ==
    [snitch |-> AfterConns(PollConns(conns, PollState(ledger, en.current_processes, BlankProc),
                                     os, ctime, readable, vt),
                           ctime, readable, vt),
     known_pids |-> en.known_pids]

\* initial_poll: [snitch, known_pids]
initial_poll(ledger, known, conns, ctime, os, readable, vt) ==
    PollFrom(ledger, Enumerate(Enumerated(os), os, <<>>, known), conns, ctime, os, readable, vt)

(***************************************************************************)
(* loop() from its first line (lines 314-366), the Supervisor and the      *)
(* Producer seen from the main process: the Producer emits events and      *)
(* errors, the Supervisor process may end.                                 *)
(*   corr: "start" at line 316, "spawned" after line 325, "dropped" after  *)
(*   line 326, "handled" after line 334, "loop" from line 342, "exited"    *)
(*   after sys.exit, "killed" by a signal, "crashed" by an exception       *)
(***************************************************************************)
MaxErrors == 1      \* lines of Errors and waiting errors up to which the Producer posts one

Unset == 0 - 1      \* os.getenv gives None

Socket(pid, ip, port) == [pid |-> pid, ip |-> ip, port |-> port]

\* what psutil.net_connections may list, in the order the set is iterated
NetConnections ==
    {<<>>,
     <<Socket("100", IP_B, 80)>>,
     <<Socket("200", IP_A, 443)>>,
     <<Socket("None", IP_B, 80)>>,
     <<Socket("100", IP_P, 80)>>,
     <<Socket("100", NoIP, 0)>>}

\* the events of these runs
LoopEvents ==
    {ExecEvent("200", S_firefox, C_exec_nc), ConnEvent("200", IP_B, 80),
     ConnEvent("100", IP_B, 80)}

\* the Supervisor process runs (p_snitch_mon.is_alive())
MonitorAlive == sup.pc \notin {"none", "done"}

\* picosnitch started through sudo by uid 1000 or by root, or without sudo
\* by root: loop() is entered with uid 0
InitLoop ==
    /\ snitch \in {EmptySnitch(c) : c \in {k \in Configs : k.vtKey = "key"}}
    /\ known_pids = <<>>
    /\ missed_conns = <<>>
    /\ q_snitch = <<>>
    /\ os_procs = [pid \in PIDs |-> LiveProcess(pid)]
    /\ now = 1
    /\ corr = "start"
    /\ nev = 0
    /\ last = [op |-> "none"]
    /\ q_error = <<>>
    /\ q_term = <<>>
    /\ q_term_monitor = <<>>
    /\ sup = [pc |-> "none", p |-> 0, cooled |-> FALSE, forwarded |-> FALSE, why |-> ""]
    /\ prod = [alive |-> {}, high |-> FALSE, exit |-> ""]
    /\ priv \in {[uid |-> 0, SUDO_UID |-> u] : u \in {Unset, 0, 1000}}
    /\ disk = {}
    /\ inst = [i \in Instances |-> IF i = 1 THEN [pc |-> "daemon", child |-> FALSE]
                                 ELSE NotStarted]
    /\ lock = 0
    /\ Quiet

\* lines 317-325: the lock is taken, the ledger read and the Supervisor
\* process started, which starts its first Producer
LoopStart ==
    /\ corr = "start"
    /\ lock = 0
    /\ lock' = 1
    /\ inst' = [inst EXCEPT ![1] = InLoop]
    /\ sup' = [sup EXCEPT !.pc = "check", !.p = 1]
    /\ prod' = [prod EXCEPT !.alive = {1}]
    /\ corr' = "spawned"
    /\ last' = [op |-> "start"]
    /\ UNCHANGED <<snitch, known_pids, missed_conns, q_snitch, os_procs, now, nev>>
    /\ UNCHANGED <<q_error, q_term, q_term_monitor, priv, disk, sidevars>>

\* drop_root_privileges leaving the uid as it is
keep_root_privileges(p) == [raised |-> FALSE, priv |-> p]

\* drop_root_privileges (lines 85-89): int(os.getenv("SUDO_GID")) raises
\* TypeError when the variable is not set
drop_root_privileges(p) ==
    IF p.uid # 0 THEN [raised |-> FALSE, priv |-> p]
    ELSE IF p.SUDO_UID = Unset THEN [raised |-> TRUE, priv |-> p]
    ELSE [raised |-> FALSE, priv |-> [p EXCEPT !.uid = p.SUDO_UID]]

\* line 326
DropRoot ==
    /\ corr = "spawned"
    /\ priv' = drop_root_privileges(priv).priv
    /\ corr' = IF drop_root_privileges(priv).raised THEN "crashed" ELSE "dropped"
    /\ last' = [op |-> "drop"]
    /\ UNCHANGED <<snitch, known_pids, missed_conns, q_snitch, os_procs, now, nev>>
    /\ UNCHANGED <<q_error, q_term, q_term_monitor, sup, prod, disk, inst, lock, sidevars>>

\* lines 328-334: the handlers of SIGTERM and SIGINT are installed
SetHandlers ==
    /\ corr = "dropped"
    /\ corr' = "handled"
    /\ last' = [op |-> "handlers"]
    /\ UNCHANGED <<snitch, known_pids, missed_conns, q_snitch, os_procs, now, nev>>
    /\ UNCHANGED procvars

\* lines 336-341: r is what initial_poll did
Polled(r, conns) ==
    /\ snitch' = r.snitch
    /\ known_pids' = r.known_pids
    /\ missed_conns' = <<>>
    /\ corr' = "loop"
    /\ last' = [op |-> "poll", conns |-> conns]

InitialPoll(conns, readable, vt) ==
    /\ corr = "handled"
    /\ Polled(initial_poll(snitch, <<>>, conns, CTimes[now], os_procs, readable, vt), conns)
    /\ UNCHANGED <<q_snitch, os_procs, now, nev>>
    /\ UNCHANGED procvars

\* the Producer's callbacks put one event on q_snitch (lines 386-399)
ProducerEmit(e) ==
    /\ prod.alive # {}
    /\ nev < MaxLoopEvents
    /\ Len(q_snitch) < MaxQueue
    /\ q_snitch' = Append(q_snitch, e)
    /\ nev' = nev + 1
    /\ UNCHANGED <<snitch, known_pids, missed_conns, os_procs, now, corr, last>>
    /\ UNCHANGED procvars

\* line 408: perf_buffer_poll raised
BpfError ==
    /\ prod.alive # {}
    /\ Len(snitch.Errors) + Len(q_error) < MaxErrors
    /\ q_error' = Append(q_error, "BPF")
    /\ UNCHANGED <<snitch, known_pids, missed_conns, q_snitch, os_procs, now, corr, nev, last>>
    /\ UNCHANGED <<q_term, q_term_monitor, sup, prod, priv, disk, inst, lock, sidevars>>

\* the Supervisor process ends, and its daemonic Producer with it
MonitorStops ==
    /\ MonitorAlive
    /\ sup' = [sup EXCEPT !.pc = "done", !.why = "ended"]
    /\ prod' = [prod EXCEPT !.alive = {}]
    /\ UNCHANGED <<snitch, known_pids, missed_conns, q_snitch, os_procs, now, corr, nev, last>>
    /\ UNCHANGED <<q_error, q_term, q_term_monitor, priv, disk, inst, lock, sidevars>>

\* the queued errors replacing Errors instead of following it
WithErrorsOnly(errors, queued, ctime) ==
    [i \in 1..Len(queued) |-> [ctime |-> ctime, msg |-> queued[i]]]

\* the loop of lines 343-347: every queued error becomes a line of Errors
RECURSIVE WithErrors(_, _, _)
WithErrors(errors, queued, ctime) ==
    IF queued = <<>> THEN errors
    ELSE WithErrors(Append(errors, [ctime |-> ctime, msg |-> Head(queued)]),
                    Tail(queued), ctime)

DrainErrors ==
    /\ corr = "loop"
    /\ q_error # <<>>
    /\ snitch' = [snitch EXCEPT !.Errors = WithErrors(@, q_error, CTimes[now])]
    /\ q_error' = <<>>
    /\ last' = [op |-> "errors"]
    /\ UNCHANGED <<known_pids, missed_conns, q_snitch, os_procs, now, corr, nev>>
    /\ UNCHANGED <<q_term, q_term_monitor, sup, prod, priv, disk, inst, lock, sidevars>>

\* terminate (lines 92-98): the ledger is written under the uid of the main
\* process, the token is put on q_term and the process exits
Terminate ==
    /\ disk' = disk \cup {priv.uid}
    /\ q_term' = Append(q_term, "TERMINATE")
    /\ corr' = "exited"

\* lines 348-352
SubprocessDeath ==
    /\ corr = "loop"
    /\ ~MonitorAlive
    /\ snitch' = [snitch EXCEPT !.Errors =
                     Append(@, [ctime |-> CTimes[now], msg |-> "snitch subprocess stopped"])]
    /\ Terminate
    /\ last' = [op |-> "death"]
    /\ UNCHANGED <<known_pids, missed_conns, q_snitch, os_procs, now, nev>>
    /\ UNCHANGED <<q_error, q_term_monitor, sup, prod, priv, inst, lock, sidevars>>

\* SIGTERM or SIGINT reaches the main process: the handler of lines 328-329
\* once it is installed, the death of the process before that
Signal ==
    /\ corr \in {"spawned", "dropped", "handled", "loop"}
    /\ IF corr \in {"handled", "loop"}
       THEN Terminate
       ELSE corr' = "killed" /\ UNCHANGED <<disk, q_term>>
    /\ last' = [op |-> "signal"]
    /\ UNCHANGED <<snitch, known_pids, missed_conns, q_snitch, os_procs, now, nev>>
    /\ UNCHANGED <<q_error, q_term_monitor, sup, prod, priv, inst, lock, sidevars>>

\* lines 361-366: the ledger is written under the uid of the main process
WriteLedger ==
    /\ corr = "loop"
    /\ disk' = disk \cup {priv.uid}
    /\ last' = [op |-> "write"]
    /\ UNCHANGED <<snitch, known_pids, missed_conns, q_snitch, os_procs, now, corr, nev>>
    /\ UNCHANGED <<q_error, q_term, q_term_monitor, sup, prod, priv, inst, lock, sidevars>>

NextLoop ==
    \/ LoopStart
    \/ DropRoot
    \/ SetHandlers
    \/ \E conns \in NetConnections, vt \in {"found", "fail"} : InitialPoll(conns, TRUE, vt)
    \/ \E e \in LoopEvents : ProducerEmit(e)
    \/ BpfError
    \/ MonitorStops
    \/ DrainErrors
    \/ SubprocessDeath
    \/ \E vt \in {"found", "fail"} : Drain(TRUE, vt)
    \/ WriteLedger
    \/ Signal
    \/ ProcExit("200")

SpecLoop == InitLoop /\ [][NextLoop]_vars

(***************************************************************************)
(* Properties of loop()                                                    *)
(***************************************************************************)
IsPrefix(a, b) == Len(a) <= Len(b) /\ SubSeq(b, 1, Len(a)) = a

\* C11: every step of the Correlator (initial_poll, process_queue with its
\* update_snitch calls, the draining of q_error, the handling of the
\* Supervisor's death) leaves the old Errors a prefix of the new Errors and
\* the old Latest Entries a prefix of the new Latest Entries.
C11_AppendOnly ==
    [][/\ IsPrefix(snitch.Errors, snitch'.Errors)
       /\ IsPrefix(snitch.Latest, snitch'.Latest)]_vars

\* C11 witness: the loop has ended on the Supervisor's death with lines of
\* initial_poll, of q_error and of process_queue before the last one
C11_Witness ==
    /\ last.op = "death"
    /\ Len(snitch.Latest) >= 2
    /\ Len(snitch.Errors) >= 3
    /\ \E i \in 1..Len(snitch.Errors) : snitch.Errors[i].msg = "Init"
    /\ \E i \in 1..Len(snitch.Errors) : snitch.Errors[i].msg = "BPF"
    /\ snitch.Errors[Len(snitch.Errors)].msg = "snitch subprocess stopped"

\* a step of SpecLoop that is one run of process_queue
LoopDrainStep ==
    /\ DrainStep
    /\ q_snitch # <<>> \/ missed_conns # <<>>
    /\ q_snitch' = <<>>
    /\ UNCHANGED procvars

\* a step of SpecLoop that is the run of initial_poll
PollStep == corr = "handled" /\ corr' = "loop" /\ last'.op = "poll"

\* the batch is made of exec events only
ExecOnly(batch) == batch # <<>> /\ \A i \in 1..Len(batch) : batch[i].type = "exec"

\* the four tables of the ledger are left as they were
LedgerKept ==
    /\ snitch'.Processes = snitch.Processes
    /\ snitch'.Names = snitch.Names
    /\ snitch'.Latest = snitch.Latest
    /\ snitch'.Remote = snitch.Remote

\* every exec event of the batch is in known_pids after a run that returned
PidsLearnt(batch) ==
    last'.exc = "" =>
        \A i \in 1..Len(batch) :
            /\ batch[i].pid \in DOMAIN known_pids'
            /\ known_pids'[batch[i].pid].cmdline = batch[i].cmdline

\* the connection is one initial_poll merges (line 184)
Mergeable(c) == c.pid # "None" /\ c.ip # NoIP /\ ~is_private(c.ip)

\* C19 as stated: while "Only log connections" is true, a run of
\* process_queue on a batch made solely of exec events changes known_pids
\* only, and so does the enumeration of the processes in initial_poll:
\* Processes, Names, Latest Entries and Remote Addresses stay as they were.
C19_ExecOnlyAsStated ==
    [][/\ (snitch.Config.onlyLog /\ LoopDrainStep /\ ExecOnly(q_snitch)) =>
              LedgerKept /\ PidsLearnt(q_snitch)
       /\ (snitch.Config.onlyLog /\ PollStep
             /\ \A i \in 1..Len(last'.conns) : ~Mergeable(last'.conns[i])) =>
              LedgerKept]_vars

\* C19 amended: the same, for a run of process_queue that has no deferred
\* conn event to retry (missed_conns is empty).
C19_ExecOnly ==
    [][/\ (snitch.Config.onlyLog /\ LoopDrainStep /\ ExecOnly(q_snitch)
             /\ missed_conns = <<>>) =>
              LedgerKept /\ PidsLearnt(q_snitch)
       /\ (snitch.Config.onlyLog /\ PollStep
             /\ \A i \in 1..Len(last'.conns) : ~Mergeable(last'.conns[i])) =>
              LedgerKept]_vars

\* C19 witness: after initial_poll enumerated /bin/sh, a batch of one exec
\* event has been processed with "Only log connections" true
C19_Witness ==
    /\ snitch.Config.onlyLog
    /\ last.op = "drain"
    /\ last.exc = ""
    /\ last.pending_list = <<>>
    /\ "pid" \in DOMAIN known_pids
    /\ "200" \in DOMAIN known_pids
    /\ known_pids["200"].exe = S_nc
    /\ snitch.Processes = <<>>
    /\ snitch.Latest = <<>>

\* C20: after initial_poll, known_pids maps the pid of every process it
\* enumerated (a running process whose exe is a file) to the descriptor
\* psutil gave, and a conn event that comes later for such a pid is merged
\* by the run of process_queue that receives it, not deferred.
C20_EnumeratedKnown ==
    [][/\ PollStep =>
              \A pid \in PIDs :
                  (os_procs[pid].alive /\ isfile(os_procs[pid].exe)) =>
                      /\ pid \in DOMAIN known_pids'
                      /\ known_pids'[pid] = InfoOf(os_procs, pid)
       /\ (LoopDrainStep /\ last'.exc = "" /\ "pid" \in DOMAIN known_pids) =>
              \A i \in 1..Len(q_snitch) :
                  (q_snitch[i].type = "conn" /\ q_snitch[i].pid = known_pids["pid"].pid) =>
                      ~InList(q_snitch[i], missed_conns')]_vars

\* root is given up once the Supervisor runs and before the handlers are
\* installed, initial_poll runs or the ledger is written
DroppedInTime ==
    /\ 0 \notin disk
    /\ corr \in {"dropped", "handled", "loop", "exited"} => priv.uid # 0
    /\ priv.uid # 0 => sup.pc # "none"

MaxStarts == 3      \* Producers the Supervisor starts in a run

\* what the steps of the Supervisor and of the Producer leave alone
corrvars == <<snitch, known_pids, missed_conns, q_snitch, os_procs, now, corr, nev, last>>
hostvars == <<priv, disk, inst, lock, sidevars>>

\* multiprocessing.parent_process().is_alive() in the Supervisor
MainAlive == corr \notin {"exited", "killed", "crashed"}

\* the Supervisor process has just been started by init_snitch_subprocess,
\* the main process is in its loop
InitSup ==
    /\ snitch \in {EmptySnitch(c) : c \in {k \in Configs : k.vtKey = ""}}
    /\ known_pids = <<>>
    /\ missed_conns = <<>>
    /\ q_snitch = <<>>
    /\ os_procs = [pid \in PIDs |-> NoProcess]
    /\ now = 1
    /\ corr = "loop"
    /\ nev = 0
    /\ last = [op |-> "none"]
    /\ q_error = <<>>
    /\ q_term = <<>>
    /\ q_term_monitor = <<>>
    /\ sup = [pc |-> "start", p |-> 0, cooled |-> FALSE, forwarded |-> FALSE, why |-> ""]
    /\ prod = [alive |-> {}, high |-> FALSE, exit |-> ""]
    /\ priv = [uid |-> 1000, SUDO_UID |-> 1000]
    /\ disk = {}
    /\ inst = [i \in Instances |-> IF i = 1 THEN InLoop ELSE NotStarted]
    /\ lock = 1
    /\ Quiet

\* lines 432-434, 440-442 and 445-447: a Producer is started and
\* time_last_start is set
Spawned ==
    /\ sup.p < MaxStarts
    /\ prod' = [alive |-> prod.alive \cup {sup.p + 1}, high |-> FALSE, exit |-> prod.exit]

\* lines 422-434
SupStart ==
    /\ sup.pc = "start"
    /\ Spawned
    /\ sup' = [sup EXCEPT !.pc = "check", !.p = @ + 1, !.cooled = FALSE]
    /\ UNCHANGED <<q_error, q_term, q_term_monitor>>
    /\ UNCHANGED corrvars
    /\ UNCHANGED hostvars

\* lines 436-447, up to the put of terminate_subprocess at line 439
SupCheck ==
    /\ sup.pc = "check"
    /\ IF sup.p \in prod.alive
       THEN IF prod.high
            THEN /\ q_error' = Append(q_error, "memory usage exceeded 512 MB")
                 /\ q_term_monitor' = Append(q_term_monitor, "TERMINATE")
                 /\ sup' = [sup EXCEPT !.pc = "join", !.why = "memory"]
                 /\ UNCHANGED prod
            ELSE /\ sup' = [sup EXCEPT !.pc = "get"]
                 /\ UNCHANGED <<q_error, q_term_monitor, prod>>
       ELSE IF sup.cooled
            THEN /\ q_error' = Append(q_error, "Snitch subprocess died")
                 /\ Spawned
                 /\ sup' = [sup EXCEPT !.pc = "get", !.p = @ + 1, !.cooled = FALSE]
                 /\ UNCHANGED q_term_monitor
            ELSE /\ sup' = [sup EXCEPT !.pc = "get"]
                 /\ UNCHANGED <<q_error, q_term_monitor, prod>>
    /\ UNCHANGED q_term
    /\ UNCHANGED corrvars
    /\ UNCHANGED hostvars

\* terminate_subprocess after its put, leaving the Producer alive when the
\* 3 s of join have passed
SupJoinNoKill(raises) ==
    /\ sup.pc = "join"
    /\ ~raises
    /\ IF sup.why = "memory"
       THEN /\ Spawned
            /\ sup' = [sup EXCEPT !.pc = "get", !.p = @ + 1, !.cooled = FALSE]
       ELSE /\ UNCHANGED prod
            /\ sup' = [sup EXCEPT !.pc = "done", !.why = "returned"]
    /\ UNCHANGED <<q_error, q_term, q_term_monitor>>
    /\ UNCHANGED corrvars
    /\ UNCHANGED hostvars

\* terminate_subprocess (line 431) after its put: p.join(3), p.kill() when
\* the Producer is still alive, p.close(); then lines 440-442 or line 455.
\* close() raises ValueError when the killed process has not ended yet
\* (raises), and the exception ends the Supervisor
SupJoin(raises) ==
    /\ sup.pc = "join"
    /\ raises => sup.p \in prod.alive
    /\ IF raises
       THEN /\ prod' = [prod EXCEPT !.alive = @ \ {sup.p}, !.exit = "killed"]
            /\ sup' = [sup EXCEPT !.pc = "done", !.why = "ValueError"]
       ELSE IF sup.why = "memory"
       THEN /\ sup.p < MaxStarts
            /\ prod' = [alive |-> {sup.p + 1}, high |-> FALSE,
                        exit |-> IF sup.p \in prod.alive THEN "killed" ELSE prod.exit]
            /\ sup' = [sup EXCEPT !.pc = "get", !.p = @ + 1, !.cooled = FALSE]
       ELSE /\ prod' = [prod EXCEPT !.alive = @ \ {sup.p},
                                    !.exit = IF sup.p \in prod.alive THEN "killed" ELSE @]
            /\ sup' = [sup EXCEPT !.pc = "done", !.why = "returned"]
    /\ UNCHANGED <<q_error, q_term, q_term_monitor>>
    /\ UNCHANGED corrvars
    /\ UNCHANGED hostvars

\* lines 448-454 leaving the loop only for a dead Producer
SupGetDeaf ==
    /\ sup.pc = "get"
    /\ IF sup.p \notin prod.alive
       THEN /\ q_term_monitor' = Append(q_term_monitor, "TERMINATE")
            /\ sup' = [sup EXCEPT !.pc = "join", !.why = "final", !.forwarded = TRUE]
       ELSE /\ sup' = [sup EXCEPT !.pc = "check"]
            /\ UNCHANGED q_term_monitor
    /\ UNCHANGED <<q_error, q_term, prod>>
    /\ UNCHANGED corrvars
    /\ UNCHANGED hostvars

\* lines 448-454, up to the put of terminate_subprocess: the token of the
\* main process is taken, or the 10 s pass without one
SupGet ==
    /\ sup.pc = "get"
    /\ IF q_term # <<>>
       THEN /\ q_term' = Tail(q_term)
            /\ q_term_monitor' = Append(q_term_monitor, "TERMINATE")
            /\ sup' = [sup EXCEPT !.pc = "join", !.why = "final", !.forwarded = TRUE]
       ELSE IF ~MainAlive \/ sup.p \notin prod.alive
       THEN /\ q_term_monitor' = Append(q_term_monitor, "TERMINATE")
            /\ sup' = [sup EXCEPT !.pc = "join", !.why = "final", !.forwarded = TRUE]
            /\ UNCHANGED q_term
       ELSE /\ sup' = [sup EXCEPT !.pc = "check"]
            /\ UNCHANGED <<q_term, q_term_monitor>>
    /\ UNCHANGED <<q_error, prod>>
    /\ UNCHANGED corrvars
    /\ UNCHANGED hostvars

\* more than 300 s have passed since time_last_start
Cool ==
    /\ sup.pc \in {"check", "get"}
    /\ sup.p < MaxStarts
    /\ ~sup.cooled
    /\ sup' = [sup EXCEPT !.cooled = TRUE]
    /\ UNCHANGED <<q_error, q_term, q_term_monitor, prod>>
    /\ UNCHANGED corrvars
    /\ UNCHANGED hostvars

\* lines 410-412: the Producer takes a token from q_term_monitor and returns
ProdPoll(p) ==
    /\ p \in prod.alive
    /\ q_term_monitor # <<>>
    /\ q_term_monitor' = Tail(q_term_monitor)
    /\ prod' = [prod EXCEPT !.alive = @ \ {p}, !.exit = "token"]
    /\ UNCHANGED <<q_error, q_term, sup>>
    /\ UNCHANGED corrvars
    /\ UNCHANGED hostvars

\* the Producer ends by itself: lines 416-418, or an exception outside the
\* try of lines 405-408
ProdCrash(p) ==
    /\ p \in prod.alive
    /\ sup.p < MaxStarts
    /\ prod' = [prod EXCEPT !.alive = @ \ {p}, !.exit = "crashed"]
    /\ UNCHANGED <<q_error, q_term, q_term_monitor, sup>>
    /\ UNCHANGED corrvars
    /\ UNCHANGED hostvars

\* the memory of the Producer passes 512 MB
MemGrow ==
    /\ sup.p \in prod.alive
    /\ sup.p < MaxStarts
    /\ ~prod.high
    /\ prod' = [prod EXCEPT !.high = TRUE]
    /\ UNCHANGED <<q_error, q_term, q_term_monitor, sup>>
    /\ UNCHANGED corrvars
    /\ UNCHANGED hostvars

\* the main process is killed
MainKilled ==
    /\ corr = "loop"
    /\ corr' = "killed"
    /\ UNCHANGED <<snitch, known_pids, missed_conns, q_snitch, os_procs, now, nev, last>>
    /\ UNCHANGED procvars

NextSup ==
    \/ SupStart
    \/ SupCheck
    \/ \E raises \in BOOLEAN : SupJoin(raises)
    \/ SupGet
    \/ Cool
    \/ \E p \in 1..MaxStarts : ProdPoll(p)
    \/ \E p \in 1..MaxStarts : ProdCrash(p)
    \/ MemGrow
    \/ DrainErrors
    \/ SubprocessDeath
    \/ Signal
    \/ MainKilled

SpecSup == InitSup /\ [][NextSup]_vars

(***************************************************************************)
(* Properties of the Supervisor                                            *)
(***************************************************************************)

\* the Supervisor leaves the loop of lines 435-453
SupBreaks == sup.pc = "get" /\ sup'.pc = "join"

\* the Supervisor starts a Producer because the last one has exited
DeathRestart == sup.pc = "check" /\ sup'.pc = "get" /\ sup'.p = sup.p + 1

\* C12: while the main process is alive and has sent no terminate token,
\* the Supervisor does not leave its loop because the Producer has exited:
\* it stays in the loop and starts a fresh Producer once 300 s have passed
\* since the last start.
C12_KeepsRunning ==
    [][/\ SupBreaks => (q_term # <<>> \/ ~MainAlive)
       /\ (sup.pc = "check" /\ sup.p \notin prod.alive /\ sup.cooled /\ sup'.pc # "check")
             => DeathRestart]_vars

\* the Supervisor ends the call of terminate_subprocess of line 439
MemoryRestart == sup.pc = "join" /\ sup.why = "memory" /\ sup'.pc # "join"

\* C13: when the memory of a live Producer is over 512 MB the Supervisor
\* posts the error and, once the old Producer has ended, starts a new one
\* and goes on in its loop; the new Producer stays alive: a Producer takes
\* a terminate token only while the Supervisor is in terminate_subprocess
\* for it.
C13_MemoryRestartRecovers ==
    [][/\ (sup.pc = "check" /\ sup.p \in prod.alive /\ prod.high /\ sup'.pc # "check") =>
              /\ sup'.pc = "join"
              /\ q_error' = Append(q_error, "memory usage exceeded 512 MB")
       /\ MemoryRestart =>
              /\ sup'.pc = "get"
              /\ prod'.alive = {sup'.p}
              /\ sup'.p # sup.p
       /\ (prod'.exit = "token" /\ prod'.alive # prod.alive) => sup.pc = "join"]_vars

\* C14: at most one Producer started by the Supervisor is alive, and it is
\* the one started last: a Producer is started (at the start, after a
\* memory restart, after a death) only when the one before has ended.
C14_OneProducer ==
    /\ Cardinality(prod.alive) <= 1
    /\ prod.alive \subseteq {sup.p}

\* C14 witness: the third Producer runs, after a restart for memory that
\* killed its Producer and a restart for a death
C14_Witness ==
    /\ sup.p = 3
    /\ prod.alive = {3}
    /\ InList("memory usage exceeded 512 MB", q_error)
    /\ InList("Snitch subprocess died", q_error)
    /\ prod.exit = "killed"

(***************************************************************************)
(* The same system with its scheduling: the Supervisor, blocked for 3 s    *)
(* at most in join and 10 s in q_term.get, takes its next step; a          *)
(* Producer that can read q_term_monitor does so unless it is killed       *)
(* first; the main process, which sleeps 5 s at most, runs the next        *)
(* iteration of its loop.                                                  *)
(***************************************************************************)
SupStep == SupStart \/ SupCheck \/ SupGet \/ \E raises \in BOOLEAN : SupJoin(raises)

FairSup ==
    /\ WF_vars(SupStep)
    /\ WF_vars(\E p \in 1..MaxStarts : ProdPoll(p))
    /\ WF_vars(DrainErrors)
    /\ WF_vars(SubprocessDeath)

SpecSupFair == InitSup /\ [][NextSup]_vars /\ FairSup

\* the Supervisor has been told to stop: a token is on q_term or the main
\* process has ended
ToldToStop == q_term # <<>> \/ ~MainAlive

\* C15: once a terminate token is on q_term or the main process has ended,
\* the Supervisor eventually ends, from wherever it is; it ends only after
\* terminate_subprocess has put a token for the Producer and killed it if
\* it was still alive: when the Supervisor has ended no Producer is alive.
C15_SupervisorStops ==
    /\ ToldToStop ~> sup.pc = "done"
    /\ [](sup.pc = "done" =>
             /\ prod.alive = {}
             /\ sup.why = "returned" => sup.forwarded)

\* C15 witness: the Supervisor took the token of the main process, put one
\* for its Producer, killed the Producer that did not read it and returned
C15_Witness ==
    /\ sup.pc = "done"
    /\ sup.why = "returned"
    /\ sup.forwarded
    /\ corr = "exited"
    /\ q_term = <<>>
    /\ prod.exit = "killed"
    /\ q_term_monitor # <<>>

\* the main process has handled the death of its subprocess: the line is
\* in Errors, the ledger is written and the process has exited
DeathHandled ==
    /\ corr = "exited"
    /\ disk # {}
    /\ \E i \in 1..Len(snitch.Errors) : snitch.Errors[i].msg = "snitch subprocess stopped"

\* C16: when a Producer has ended by itself, the main process eventually
\* appends "snitch subprocess stopped" to Errors, writes the ledger and
\* exits (unless it is stopped by a signal first).
C16_DeathIsFatal ==
    (prod.exit = "crashed") ~> (DeathHandled \/ last.op = "signal" \/ corr = "killed")

(***************************************************************************)
(* The start of two instances (main, lines 465-488, and loop, lines        *)
(* 316-325) around ~/.picosnitch_lock.  inst[i].pc: "none", "main" at line *)
(* 467, "probing" between lines 469 and 470, "probed" after line 470,      *)
(* "read" after line 480, "daemon" inside DaemonContext, "locked" after    *)
(* line 318, "loop" after line 325, "exit0" and "exit1" by the exit        *)
(* status.  The Supervisor process is forked with the lock file open and   *)
(* keeps the lock held while it lives.                                     *)
(***************************************************************************)
InitLock ==
    /\ snitch \in {EmptySnitch(c) : c \in {k \in Configs : k.vtKey = "" /\ ~k.onlyLog}}
    /\ known_pids = <<>>
    /\ missed_conns = <<>>
    /\ q_snitch = <<>>
    /\ os_procs = [pid \in PIDs |-> NoProcess]
    /\ now = 1
    /\ corr = "start"
    /\ nev = 0
    /\ last = [op |-> "none"]
    /\ q_error = <<>>
    /\ q_term = <<>>
    /\ q_term_monitor = <<>>
    /\ sup = [pc |-> "none", p |-> 0, cooled |-> FALSE, forwarded |-> FALSE, why |-> ""]
    /\ prod = [alive |-> {}, high |-> FALSE, exit |-> ""]
    /\ priv = [uid |-> 0, SUDO_UID |-> 1000]
    /\ disk = {}
    /\ inst = [i \in Instances |-> NotStarted]
    /\ lock = 0
    /\ Quiet

\* what the steps of an instance's start leave alone
startvars == <<q_error, q_term, q_term_monitor, sup, prod, priv, disk, sidevars>>

\* the step of instance i that leads it to pc
Moves(i, pc) ==
    /\ inst' = [inst EXCEPT ![i].pc = pc]
    /\ UNCHANGED corrvars
    /\ UNCHANGED startvars

\* picosnitch is run, once the processes of an earlier run have ended
Start(i) ==
    /\ inst[i].pc \in {"none", "exit0", "exit1"}
    /\ ~inst[i].child
    /\ Moves(i, "main")
    /\ UNCHANGED lock

\* lock.acquire() taking the lock whoever holds it
AcquireBlind(i, at, held, timeout) ==
    /\ inst[i].pc = at
    /\ lock' = i
    /\ Moves(i, held)

\* lock.acquire() of a FileLock with timeout=1 (lines 469 and 318): the
\* lock is taken when it is free, filelock.Timeout is raised when it has
\* been held for 1 s, which leads to the exit of lines 471-473 or out of
\* loop()
Acquire(i, at, held, timeout) ==
    /\ inst[i].pc = at
    /\ IF lock = 0
       THEN lock' = i /\ Moves(i, held)
       ELSE UNCHANGED lock /\ Moves(i, timeout)

\* lines 468-473
Probe(i) == Acquire(i, "main", "probing", "exit1")

\* line 470
Release(i) ==
    /\ inst[i].pc = "probing"
    /\ lock' = 0
    /\ Moves(i, "probed")

\* lines 474-480: the ledger is read; a file that cannot be read as a ledger
\* (ok false) leads to the exit of line 480
Read(i, ok) ==
    /\ inst[i].pc = "probed"
    /\ Moves(i, IF ok THEN "read" ELSE "exit1")
    /\ UNCHANGED lock

\* lines 481-487
Daemonize(i) ==
    /\ inst[i].pc = "read"
    /\ Moves(i, "daemon")
    /\ UNCHANGED lock

\* lines 317-318
Relock(i) == Acquire(i, "daemon", "locked", "exit1")

\* lines 320-325: the Supervisor process is forked
Fork(i) ==
    /\ inst[i].pc = "locked"
    /\ inst' = [inst EXCEPT ![i] = InLoop]
    /\ UNCHANGED lock
    /\ UNCHANGED corrvars
    /\ UNCHANGED startvars

\* the main process of instance i ends (terminate, a signal, an exception):
\* the lock stays held while its Supervisor lives
Stop(i) ==
    /\ inst[i].pc \in {"locked", "loop"}
    /\ lock' = IF inst[i].child THEN lock ELSE 0
    /\ Moves(i, "exit0")

\* the Supervisor process of instance i ends
ChildEnds(i) ==
    /\ inst[i].child
    /\ inst' = [inst EXCEPT ![i].child = FALSE]
    /\ lock' = IF inst[i].pc = "loop" THEN lock ELSE 0
    /\ UNCHANGED corrvars
    /\ UNCHANGED startvars

NextLock ==
    \E i \in Instances :
        \/ Start(i)
        \/ Probe(i)
        \/ Release(i)
        \/ \E ok \in BOOLEAN : Read(i, ok)
        \/ Daemonize(i)
        \/ Relock(i)
        \/ Fork(i)
        \/ Stop(i)
        \/ ChildEnds(i)

SpecLock == InitLock /\ [][NextLock]_vars

\* instance i holds the lock
Holds(i) == inst[i].pc \in {"probing", "locked", "loop"} \/ inst[i].child

\* C17: whatever the interleaving of the starts of two instances, at most
\* one of them holds the lock and at most one is inside loop() past its
\* acquire; an instance whose acquire (the probe of main or the acquire of
\* loop) finds the lock held exits with status 1 and does not enter the
\* loop.
C17_OneInstance ==
    /\ [](\A i \in Instances :
             /\ Holds(i) => lock = i
             /\ \A j \in Instances \ {i} : ~(Holds(i) /\ Holds(j)))
    /\ [][\A i \in Instances :
             (inst[i].pc \in {"main", "daemon"} /\ inst'[i].pc # inst[i].pc /\ lock # 0)
                 => inst'[i].pc = "exit1"]_vars

\* C17 witness: instance 1 is in its loop and instance 2, started
\* meanwhile, has exited with status 1
C17_Witness ==
    /\ inst[1] = InLoop
    /\ inst[2].pc = "exit1"
    /\ lock = 1

\* a Producer takes a token from q_term_monitor and returns
TokenTaken == prod'.exit = "token" /\ prod'.alive # prod.alive

\* C25: a terminate token on q_term_monitor is taken only by the Producer
\* that was alive when it was put: when the Supervisor starts a Producer
\* after terminate_subprocess no token is left on the queue, and the
\* Producer that takes a token is the one the Supervisor is terminating.
C25_NoLeftoverToken ==
    [][/\ (MemoryRestart /\ sup'.p # sup.p) => q_term_monitor' = <<>>
       /\ TokenTaken => (sup.pc = "join" /\ sup.p \in prod.alive)]_vars

(***************************************************************************)
(* The exec records: the kprobe and kretprobe on execve of bpf_text        *)
(* (lines 571-640) submit records to the exec_events perf buffer, and the  *)
(* Producer's callback queue_exec_event (lines 379-390) turns them into    *)
(* exec dicts on q_snitch.  A record's argv is a byte string, a sequence   *)
(* of byte values.                                                         *)
(***************************************************************************)
MaxExecs == 2       \* execve calls in a run

\* the 20 of `for (int i = 1; i < 20; i++)`, line 614
MAXARG == 20

EVENT_ARG == 0
EVENT_RET == 1

\* byte strings: "sh", "a", "b", "a\n", the first byte of a two-byte UTF-8
\* sequence whose second byte is beyond the argv field of the record, "..."
B_sh  == <<115, 104>>
B_a   == <<97>>
B_b   == <<98>>
B_nl  == <<97, 10>>
B_cut == <<97, 195>>
ellipsis == <<46, 46, 46>>

\* the argument vectors given to execve: argv[0] first
ShortArgvs == {<<B_sh>>, <<B_sh, B_a>>, <<B_sh, B_a, B_b>>, <<B_sh, B_nl>>,
               <<B_sh, B_cut>>}
LongArgvs  == {[i \in 1..n |-> B_a] : n \in (MAXARG - 1)..(MAXARG + 1)}

ArgRecord(pid, bytes) == [type |-> EVENT_ARG, pid |-> pid, argv |-> bytes]
RetRecord(pid, comm)  == [type |-> EVENT_RET, pid |-> pid, comm |-> comm]

\* lines 614-617: submit_arg for __argv[i], __argv[i + 1], ..., which stops
\* at the NULL that ends the vector (line 582), and the "..." of lines
\* 620-621 when the loop ran to its end.  args[i + 1] is __argv[i].
RECURSIVE SubmitArgs(_, _)
SubmitArgs(args, i) ==
    IF i >= MAXARG THEN <<ellipsis>>
    ELSE IF i >= Len(args) THEN <<>>
    ELSE <<args[i + 1]>> \o SubmitArgs(args, i + 1)

\* syscall__execve, lines 587-624: the argv fields of the records submitted
syscall__execve(filename, args) == <<filename>> \o SubmitArgs(args, 1)

\* b' '.join(l), line 385
RECURSIVE JoinSpaces(_)
JoinSpaces(l) ==
    IF l = <<>> THEN <<>>
    ELSE IF Len(l) = 1 THEN l[1]
    ELSE l[1] \o <<32>> \o JoinSpaces(Tail(l))

\* .replace(b'\n', b'\\n'), line 385
RECURSIVE EscapeNewlines(_)
EscapeNewlines(b) ==
    IF b = <<>> THEN <<>>
    ELSE (IF b[1] = 10 THEN <<92, 110>> ELSE <<b[1]>>) \o EscapeNewlines(Tail(b))

\* bytes.decode(), line 386: strict UTF-8, for bytes below 224.  The text
\* is the sequence of code points; an ill-formed sequence raises
\* UnicodeDecodeError.
RECURSIVE Decodable(_)
Decodable(b) ==
    IF b = <<>> THEN TRUE
    ELSE IF b[1] < 128 THEN Decodable(Tail(b))
    ELSE /\ b[1] \in 194..223
         /\ Len(b) >= 2
         /\ b[2] \in 128..191
         /\ Decodable(Tail(Tail(b)))

RECURSIVE decode(_)
decode(b) ==
    IF b = <<>> THEN <<>>
    ELSE IF b[1] < 128 THEN <<b[1]>> \o decode(Tail(b))
    ELSE <<(b[1] - 192) * 64 + (b[2] - 128)>> \o decode(Tail(Tail(b)))

\* the Producer polls the perf buffer; no execve has been called
InitExec ==
    /\ snitch \in {EmptySnitch(c) : c \in {k \in Configs : k.vtKey = "" /\ k.onlyLog}}
    /\ known_pids = <<>>
    /\ missed_conns = <<>>
    /\ q_snitch = <<>>
    /\ os_procs = [pid \in PIDs |-> NoProcess]
    /\ now = 1
    /\ corr = "loop"
    /\ nev = 0
    /\ last = [op |-> "none", pid |-> "", filename |-> <<>>, args |-> <<>>,
               arrived |-> [p \in PIDs |-> <<>>]]
    /\ Settled

execvars == <<snitch, known_pids, missed_conns, os_procs, now, corr,
              q_term, q_term_monitor, sup, prod, priv, disk, inst, lock,
              clock, last_write, sizeof_snitch>>

\* the records of process p in the perf buffer, and whether p is in execve
InExecve(p) == perf[p] # <<>> /\ perf[p][Len(perf[p])].type = EVENT_ARG

\* syscall__execve, lines 587-624: process p enters execve(filename, args)
Execve(p, filename, args) ==
    /\ nev < MaxExecs
    /\ ~InExecve(p)
    /\ perf' = [perf EXCEPT ![p] = @ \o [k \in 1..Len(syscall__execve(filename, args)) |->
                                          ArgRecord(p, syscall__execve(filename, args)[k])]]
    /\ nev' = nev + 1
    /\ last' = [last EXCEPT !.op = "execve", !.pid = p, !.args = args,
                            !.filename = filename]
    /\ UNCHANGED <<q_snitch, q_error, argv>>
    /\ UNCHANGED execvars

\* do_ret_sys_execve, lines 626-640: process p returns from execve
ExecveReturns(p) ==
    /\ InExecve(p)
    /\ perf' = [perf EXCEPT ![p] = Append(@, RetRecord(p, B_sh))]
    /\ last' = [last EXCEPT !.op = "ret", !.pid = p]
    /\ UNCHANGED <<q_snitch, q_error, argv, nev>>
    /\ UNCHANGED execvars

\* line 385
ArgvText(buffered) == EscapeNewlines(JoinSpaces(buffered))

\* queue_exec_event, lines 380-390, called by b.perf_buffer_poll() (line
\* 406) with the oldest record of one of the per-CPU buffers.  An exception
\* of line 386 leaves the callback: what the caller of the callback does
\* with it (bcc and ctypes, not in this file) is either to drop it or to
\* raise it from perf_buffer_poll, where lines 407-409 report it.
queue_exec_event(p, reported) ==
    /\ perf[p] # <<>>
    /\ perf' = [perf EXCEPT ![p] = Tail(@)]
    /\ IF perf[p][1].type = EVENT_ARG
       THEN /\ argv' = [argv EXCEPT ![p] = Append(@, perf[p][1].argv)]
            /\ last' = [last EXCEPT !.op = "arg", !.pid = p,
                                    !.arrived[p] = Append(@, perf[p][1].argv)]
            /\ ~reported
            /\ UNCHANGED <<q_snitch, q_error>>
       ELSE /\ last' = [last EXCEPT !.op = "return", !.pid = p, !.arrived[p] = <<>>]
            /\ IF Decodable(ArgvText(argv[p])) /\ Decodable(perf[p][1].comm)
               THEN /\ q_snitch' = Append(q_snitch,
                                          [type |-> "exec", pid |-> p,
                                           name |-> decode(perf[p][1].comm),
                                           cmdline |-> decode(ArgvText(argv[p]))])
                    /\ argv' = [argv EXCEPT ![p] = <<>>]
                    /\ ~reported
                    /\ UNCHANGED q_error
               ELSE /\ q_error' = IF reported
                                  THEN Append(q_error, "BPF UnicodeDecodeError")
                                  ELSE q_error
                    /\ UNCHANGED <<q_snitch, argv>>
    /\ UNCHANGED nev
    /\ UNCHANGED execvars

NextExec ==
    \/ \E args \in ShortArgvs \cup LongArgvs : Execve("100", B_sh, args)
    \/ \E args \in ShortArgvs : Execve("200", B_sh, args)
    \/ \E p \in PIDs : ExecveReturns(p)
    \/ \E p \in PIDs, reported \in BOOLEAN : queue_exec_event(p, reported)

SpecExec == InitExec /\ [][NextExec]_vars

\* the argv fields of the records that a step of Execve submits
Submitted ==
    [k \in 1..(Len(perf'[last'.pid]) - Len(perf[last'.pid])) |->
        perf'[last'.pid][Len(perf[last'.pid]) + k].argv]

\* C24: the "..." record is submitted exactly when the argv given to execve
\* had more than 20 entries; an argv of 20 or fewer entries is submitted in
\* full (the filename standing for argv[0]) with no "..." record.
C24_EllipsisWhenCut ==
    [][(last'.op = "execve" /\ nev' = nev + 1) =>
          /\ (Submitted[Len(Submitted)] = ellipsis) <=> (Len(last'.args) > MAXARG)
          /\ Len(last'.args) <= MAXARG =>
                 Submitted = <<last'.filename>> \o Tail(last'.args)]_vars

\* a step in which queue_exec_event is called with a return record of p
ReturnArrives(p) ==
    /\ perf[p] # <<>>
    /\ perf[p][1].type = EVENT_RET
    /\ perf'[p] = Tail(perf[p])

\* C23: whatever the interleaving of the records of different pids, the
\* callback puts one exec dict on q_snitch for each return record, whose
\* cmdline is the argument records that arrived for that pid since the
\* pid's previous return record, in their order and joined by single
\* spaces, and the pid's buffer is empty afterwards.
C23_OneRecordPerReturn ==
    [][\A p \in PIDs :
          ReturnArrives(p) =>
              /\ Len(q_snitch') = Len(q_snitch) + 1
              /\ argv'[p] = <<>>
              /\ (Len(q_snitch') = Len(q_snitch) + 1
                  /\ Decodable(JoinSpaces(last.arrived[p]))) =>
                     /\ q_snitch'[Len(q_snitch')].pid = p
                     /\ q_snitch'[Len(q_snitch')].cmdline =
                            decode(JoinSpaces(last.arrived[p]))]_vars

(***************************************************************************)
(* The periodic write of loop(), lines 336-339 and 361-366                 *)
(***************************************************************************)
MaxWaits == 4       \* the times the clock is advanced in a run

\* a process with a connection, already in the ledger when the loop starts
WProc == [name |-> S_sh, exe |-> S_sh, cmdline |-> StrVal(C_sh_a)]
WConn == [ip |-> IP_A, port |-> 80]

\* the number of elements and characters of a dict of lists
RECURSIVE DictSize(_, _)
DictSize(d, keys) ==
    IF keys = {} THEN 0
    ELSE LET k == CHOOSE x \in keys : TRUE
         IN  Len(k) + Len(d[k]) + DictSize(d, keys \ {k})

\* the same of the Processes records
RECURSIVE RecordsSize(_, _)
RecordsSize(d, keys) ==
    IF keys = {} THEN 0
    ELSE LET k == CHOOSE x \in keys : TRUE
         IN  Len(k) + Len(d[k].name) + Len(d[k].cmdlines) + Len(d[k].ports)
             + Len(d[k].remote_addresses) + Cardinality(DOMAIN d[k].results)
             + RecordsSize(d, keys \ {k})

\* the same of the Remote records
RECURSIVE RemoteSize(_, _)
RemoteSize(d, keys) ==
    IF keys = {} THEN 0
    ELSE LET k == CHOOSE x \in keys : TRUE
         IN  Len(k) + Len(d[k].exes) + RemoteSize(d, keys \ {k})

\* sys.getsizeof(pickle.dumps(snitch)), lines 338 and 362: the pickle grows
\* with every element and character added to the ledger; a time.ctime()
\* string always has 24 characters and a small int always one byte, so the
\* size does not depend on the value of a last_seen or of a days_seen
sizeof(ledger) ==
    Len(ledger.Errors) + Len(ledger.Latest) + DictSize(ledger.Names, DOMAIN ledger.Names)
    + RecordsSize(ledger.Processes, DOMAIN ledger.Processes) + RemoteSize(ledger.Remote, DOMAIN ledger.Remote)

\* the conditions of lines 361 and 363, time.time() reading t
WriteDueBySize(t, lastw, new_size, old_size) ==
    t - lastw > 30 /\ new_size # old_size

WriteDue(t, lastw, new_size, old_size) ==
    t - lastw > 30 /\ (new_size # old_size \/ t - lastw > 600)

\* loop() at line 341, with WProc and its connection in the ledger; what
\* `last` keeps of the periodic writes: how many there were, when the last
\* one was and what it wrote
InitWrite ==
    /\ snitch \in {update_snitch(EmptySnitch(c), WProc, WConn, get_sha256(WProc.exe, TRUE),
                                 CTimes[1], "miss").snitch :
                      c \in {k \in Configs : k.vtKey = "" /\ k.onlyLog}}
    /\ known_pids = <<>>
    /\ missed_conns = <<>>
    /\ q_snitch = <<>>
    /\ os_procs = [pid \in PIDs |-> NoProcess]
    /\ now = 1
    /\ corr = "loop"
    /\ nev = 0
    /\ last = [op |-> "none", writes |-> 0, at |-> 0, wrote |-> snitch, before |-> snitch]
    /\ q_error = <<>>
    /\ q_term = <<>>
    /\ q_term_monitor = <<>>
    /\ sup = [pc |-> "check", p |-> 1, cooled |-> FALSE, forwarded |-> FALSE, why |-> ""]
    /\ prod = [alive |-> {1}, high |-> FALSE, exit |-> ""]
    /\ priv = [uid |-> 1000, SUDO_UID |-> 1000]
    /\ disk = {}
    /\ inst = [i \in Instances |-> IF i = 1 THEN InLoop ELSE NotStarted]
    /\ lock = 1
    /\ perf = [p \in PIDs |-> <<>>]
    /\ argv = [p \in PIDs |-> <<>>]
    /\ clock = T0
    /\ last_write = 0
    /\ sizeof_snitch = sizeof(snitch)

writevars == <<known_pids, missed_conns, q_snitch, os_procs, corr,
               q_error, q_term, q_term_monitor, sup, prod, priv, inst, lock,
               perf, argv>>

\* time passes by d seconds (the sleep of line 356, or the work of the
\* iteration), into the next day or not
Wait(d, day) ==
    /\ nev < MaxWaits
    /\ nev' = nev + 1
    /\ clock' = clock + d
    /\ now' = IF day /\ now < Len(CTimes) THEN now + 1 ELSE now
    /\ UNCHANGED <<snitch, last, disk, last_write, sizeof_snitch>>
    /\ UNCHANGED writevars

\* what lines 343-359 of an iteration do to the ledger: nothing, an error
\* of the Producer appended (line 345), or an event of WProc merged
Changed(ledger, change, ctime) ==
    IF change = "error"
    THEN [ledger EXCEPT !.Errors = WithErrors(@, <<"BPF Exception()">>, ctime)]
    ELSE IF change = "merge"
    THEN update_snitch(ledger, WProc, WConn, get_sha256(WProc.exe, TRUE), ctime, "miss").snitch
    ELSE ledger

\* lines 361-366 for the ledger as the iteration left it
WriteStep(ledger) ==
    /\ snitch' = ledger
    /\ IF WriteDue(clock, last_write, sizeof(ledger), sizeof_snitch)
       THEN /\ sizeof_snitch' = sizeof(ledger)
            /\ last_write' = clock
            /\ disk' = disk \cup {priv.uid}
            /\ last' = [op |-> "write", writes |-> last.writes + 1, at |-> clock,
                        wrote |-> ledger, before |-> last.wrote]
       ELSE /\ last' = [last EXCEPT !.op = "pass"]
            /\ UNCHANGED <<sizeof_snitch, last_write, disk>>

\* one iteration of the loop, lines 342-366
Iterate(change) ==
    /\ corr = "loop"
    /\ change = "error" => Len(snitch.Errors) < MaxErrors
    /\ WriteStep(Changed(snitch, change, CTimes[now]))
    /\ UNCHANGED <<now, nev, clock>>
    /\ UNCHANGED writevars

NextWrite ==
    \/ \E d \in {1, 30, 600}, day \in BOOLEAN : Wait(d, day)
    \/ \E change \in {"none", "error", "merge"} : Iterate(change)

SpecWrite == InitWrite /\ [][NextWrite]_vars

\* a step that is one iteration of the loop, and one that wrote the ledger
IterateStep == last'.op \in {"write", "pass"} /\ UNCHANGED <<clock, nev>>
Wrote       == last'.writes = last.writes + 1

\* C22: once the loop has written the ledger, an iteration writes it if and
\* only if more than 30 s have passed since the last periodic write and
\* either the serialized size differs from the size of the ledger written
\* then or more than 600 s have passed; so two periodic writes are more
\* than 30 s apart, and a changed ledger of unchanged size is written once
\* more than 600 s have passed.
C22_WriteRule ==
    [][(IterateStep /\ last.writes > 0) =>
          /\ Wrote <=> /\ clock - last.at > 30
                       /\ \/ sizeof(snitch') # sizeof(last.wrote)
                          \/ clock - last.at > 600
          /\ Wrote => clock - last.at > 30
          /\ (/\ snitch' # last.wrote
              /\ sizeof(snitch') = sizeof(last.wrote)
              /\ clock - last.at > 600) => Wrote]_vars

\* a second periodic write has written a ledger that differs from the one
\* written before it and has the same size
C22_Witness ==
    /\ last.op = "write"
    /\ last.writes >= 2
    /\ last.wrote # last.before
    /\ sizeof(last.wrote) = sizeof(last.before)
    /\ disk # {}

(***************************************************************************)
(* The termination handler (lines 92-98, installed at lines 328-329) and   *)
(* the merge it can interrupt.  A Python signal handler runs in the main   *)
(* thread between two bytecode instructions of whatever the thread is      *)
(* doing: between two statements of update_snitch, and between two         *)
(* statements of a handler that is already running.  corr is the position  *)
(* of the main thread: "loop" between two update_snitch calls, "names"     *)
(* and "processes" inside one, "write", "put", "join" and "close" before   *)
(* the statements of terminate.                                            *)
(***************************************************************************)
MaxSignals == 2     \* signals delivered in a run

\* the statements of terminate in their order, and the first of them
TerminateOrder == <<"write", "put", "join", "exit">>
EnteredAtPut == "put"
Entered      == "write"

\* loop() between two iterations; what `last` keeps: the arguments of the
\* update_snitch call in progress, the ledger as the last complete call
\* left it, the statements of terminate that ran, the ledger last written
InitSignal ==
    /\ snitch \in {EmptySnitch(c) : c \in {k \in Configs : k.vtKey = "" /\ k.onlyLog}}
    /\ known_pids = <<>>
    /\ missed_conns = <<>>
    /\ q_snitch = <<>>
    /\ os_procs = [pid \in PIDs |-> NoProcess]
    /\ now = 1
    /\ corr = "loop"
    /\ nev = 0
    /\ last = [op |-> "none", proc |-> <<>>, conn |-> <<>>, whole |-> snitch,
               trace |-> <<>>, saved |-> snitch, signals |-> 0]
    /\ Settled

signalvars == <<known_pids, missed_conns, q_snitch, os_procs, now,
                q_error, q_term_monitor, prod, priv, inst, lock, sidevars>>

\* lines 260-262 of a call update_snitch(snitch, proc, conn, ...)
MergeLatest(proc, conn) ==
    /\ corr = "loop"
    /\ nev < MaxCalls
    /\ nev' = nev + 1
    /\ snitch' = UpdateLatest(snitch, proc, CTimes[now])
    /\ corr' = "names"
    /\ last' = [last EXCEPT !.op = "merge", !.proc = proc, !.conn = conn]
    /\ UNCHANGED <<q_term, sup, disk>>
    /\ UNCHANGED signalvars

\* lines 263-270
MergeNames ==
    /\ corr = "names"
    /\ snitch' = UpdateNames(snitch, last.proc, last.conn)
    /\ corr' = "processes"
    /\ UNCHANGED <<nev, last, q_term, sup, disk>>
    /\ UNCHANGED signalvars

\* r is what lines 271-311 did
MergeEnds(r) ==
    /\ snitch' = r.snitch
    /\ corr' = IF r.raised THEN "crashed" ELSE "loop"
    /\ last' = [last EXCEPT !.whole = IF r.raised THEN @ ELSE r.snitch]

\* lines 271-311
MergeProcesses ==
    /\ corr = "processes"
    /\ MergeEnds(UpdateProcesses(snitch, last.proc, last.conn,
                                 get_sha256(last.proc.exe, TRUE), CTimes[now], "miss",
                                 reverse_domain_name(reverse_dns_lookup(last.conn.ip))))
    /\ UNCHANGED <<nev, q_term, sup, disk>>
    /\ UNCHANGED signalvars

\* SIGTERM or SIGINT is delivered: the main thread calls terminate (lines
\* 328-329) wherever it is, and does not come back from it
SignalArrives ==
    /\ corr \in {"loop", "names", "processes", "write", "put", "join", "close"}
    /\ last.signals < MaxSignals
    /\ corr' = Entered
    /\ last' = [last EXCEPT !.op = "signal", !.signals = @ + 1]
    /\ UNCHANGED <<snitch, nev, q_term, sup, disk>>
    /\ UNCHANGED signalvars

\* line 94
TermWrite ==
    /\ corr = "write"
    /\ disk' = disk \cup {priv.uid}
    /\ corr' = "put"
    /\ last' = [last EXCEPT !.op = "write", !.trace = Append(@, "write"), !.saved = snitch]
    /\ UNCHANGED <<snitch, nev, q_term, sup>>
    /\ UNCHANGED signalvars

\* line 95
TermPut ==
    /\ corr = "put"
    /\ q_term' = Append(q_term, "TERMINATE")
    /\ corr' = "join"
    /\ last' = [last EXCEPT !.op = "put", !.trace = Append(@, "put")]
    /\ UNCHANGED <<snitch, nev, sup, disk>>
    /\ UNCHANGED signalvars

\* line 96: within the 5 s the Supervisor takes the token and ends, or not
TermJoin(ended) ==
    /\ corr = "join"
    /\ IF ended /\ MonitorAlive
       THEN sup' = [sup EXCEPT !.pc = "done"] /\ q_term' = Tail(q_term)
       ELSE UNCHANGED <<sup, q_term>>
    /\ corr' = "close"
    /\ last' = [last EXCEPT !.op = "join", !.trace = Append(@, "join")]
    /\ UNCHANGED <<snitch, nev, disk>>
    /\ UNCHANGED signalvars

\* lines 97-98: close() raises ValueError for a Supervisor still running,
\* and the process ends with that exception instead of sys.exit(0)
TermExit ==
    /\ corr = "close"
    /\ corr' = IF MonitorAlive THEN "raised" ELSE "exited"
    /\ last' = [last EXCEPT !.op = "exit", !.trace = Append(@, "exit")]
    /\ UNCHANGED <<snitch, nev, q_term, sup, disk>>
    /\ UNCHANGED signalvars

NextSignal ==
    \/ \E proc \in MergeProcs, conn \in MergeConns : MergeLatest(proc, conn)
    \/ MergeNames
    \/ MergeProcesses
    \/ SignalArrives
    \/ TermWrite
    \/ TermPut
    \/ \E ended \in BOOLEAN : TermJoin(ended)
    \/ TermExit

SpecSignal == InitSignal /\ [][NextSignal]_vars

\* the place of a statement of terminate in their order
Rank(a) == CHOOSE j \in 1..Len(TerminateOrder) : TerminateOrder[j] = a

Follows(a, b) ==
    \E j \in 1..(Len(TerminateOrder) - 1) :
        TerminateOrder[j] = a /\ TerminateOrder[j + 1] = b

C26_WholeMergesWritten == disk # {} => last.saved = last.whole

====
